---- MODULE Spec2Model ----
(***************************************************************************)
(* Road Distance Finder (src/app.py): the route cache (get_route), the     *)
(* Top-N prefilter and the batch pipeline (process_batch), as a state      *)
(* machine.                                                                *)
(*                                                                         *)
(* Geometry.  Every point lies on one meridian (longitude Lon0), so the    *)
(* haversine formula reduces to R * |lat2 - lat1|.  Latitudes are integers *)
(* in units of a third of a micro-degree, so formatting with six decimals  *)
(* (the cache key) is rounding to the nearest multiple of three and never  *)
(* meets a tie.  Road distances and durations are integers in hundredths   *)
(* of a km / of a minute, so round(x, 1) is rounding to a multiple of ten. *)
(*                                                                         *)
(* Catchment.  calculate_catchment_area works on Python floats; they are   *)
(* modelled bit for bit (IEEE 754 binary64, round to nearest, ties to      *)
(* even) on mantissas kept as digit sequences.                             *)
(*                                                                         *)
(* Specifications.  Spec: runs of the distance steps, reruns and the clear *)
(* button.  SpecTwice: the same batch run twice in one session.  SpecBatch:*)
(* one run with every feature, on a session a run has left warm, its       *)
(* frames valid or not.  SpecCatchment: calculate_catchment_area on the    *)
(* loaded regions and the statistics provider's answers.  SpecLookup: one  *)
(* point looked up in a region dataset, by nuts2_lookup / nuts3_lookup or  *)
(* by AdminIndex.lookup, with each behaviour the spatial-index library may *)
(* have.  SpecObserved: runs of the distance steps with a progress         *)
(* observer that may raise.                                                *)
(***************************************************************************)
EXTENDS Integers, Sequences, FiniteSets, TLC

VARIABLES
    pc,            \* position of the script: "idle" or a step of process_batch
    session,       \* st.session_state: [has |-> key present, route_cache |-> dict]
    cfg,           \* arguments of the running process_batch call
    route_cache,   \* process_batch's local route_cache (aliases the session's dict)
    i,             \* index of the site being processed (sites.iterrows())
    cand,          \* cand_airports / cand_ports: prefiltered candidate indices
    j,             \* position in cand of the running candidate loop
    best,          \* best_air / best_port with its distance and time
    api_calls,     \* api_calls
    out_rec,       \* out_rec of the current site
    log_rec,       \* log_rec["steps"] of the current site
    results,       \* results
    logs,          \* logs
    sleeps,        \* history: number of time.sleep(pause_secs) calls of this run
    n_osrm,        \* history: number of route_via_osrm calls of this run
    attempts,      \* history: one record per pacing check / exact-distance attempt
    memo,          \* history: first successful answer per rounded coordinate pair
                   \*          since the cache dict in use was created
    failed,        \* history: rounded coordinate pairs whose latest request of
                   \*          this run failed
    trail,         \* history: the steps of this run in the order they ended, each
                   \*          with its site and how it ended
    prev,          \* history: what the previous run of the same batch left
    catch,         \* a call of calculate_catchment_area: its inputs and its result
    look           \* a region dataset, the point looked up in it and the answer

vars == <<pc, session, cfg, route_cache, i, cand, j, best, api_calls, out_rec,
          log_rec, results, logs, sleeps, n_osrm, attempts, memo, failed, trail,
          prev, catch, look>>

-----------------------------------------------------------------------------
(* Bounds of the model *)
MaxTopN == 2
MaxPauseEvery == 2
MaxSites == 2
MaxWork == 4
MaxRegions == 2
MaxGeoms == 2

(* Python values *)
None == -1
inf == 1000000
EmptyDict == <<>>
NoVal == <<None, None>>

(* Input data: the longitude of the common meridian, the latitudes of the    *)
(* sites that may be uploaded, of the airports and seaports, of the highway *)
(* access node the locator may find, of the reference location and of the   *)
(* city the cities database may return.                                     *)
World == [lon |-> 0, highway |-> 6, ref |-> 10, city |-> 1, city_pop |-> 150000]
Lon0 == World.lon
SiteLats == {3, 4}
Airports == <<1, 5, 6>>
Seaports == <<5, 10>>

(* What route_via_osrm may answer: (dist_km, dur_min) in hundredths. *)
RouteVals == {<<1234, 2611>>, <<1266, 2148>>}

-----------------------------------------------------------------------------
(* Pure functions *)

Abs(x) == IF x < 0 THEN -x ELSE x

Min(a, b) == IF a < b THEN a ELSE b
Max(a, b) == IF a > b THEN a ELSE b

R == 7

\* model units in one micro-degree, the precision of "%.6f"
MicroDeg == 3

\* haversine_km for two points of one meridian (dlambda = 0): R * |dphi|
haversine_km(lat1, lon1, lat2, lon2) == R * Abs(lat2 - lat1)

\* f"{x:.6f}": the nearest micro-degree (three model units), as an integer
Fmt6(x) == (2 * x + MicroDeg) \div (2 * MicroDeg)

\* round(x, 1) on hundredths: nearest multiple of ten, ties to even
round1(x) ==
    LET q == x \div 10
        r == x % 10
    IN  IF r < 5 THEN 10 * q
        ELSE IF r > 5 THEN 10 * (q + 1)
        ELSE IF q % 2 = 0 THEN 10 * q ELSE 10 * (q + 1)

\* _route_key: the four coordinates formatted with six decimals
_route_key(origin, dest) ==
    <<Fmt6(origin[1]), Fmt6(origin[2]), Fmt6(dest[1]), Fmt6(dest[2])>>

\* dict assignment d[k] = v
Put(d, k, v) == [x \in (DOMAIN d) \cup {k} |-> IF x = k THEN v ELSE d[x]]

\* get_route calling the provider on a hit as well
get_route_always_calls(origin, dest, cache) ==
    LET key == _route_key(origin, dest)
    IN  IF key \in DOMAIN cache
        THEN {[ok |-> TRUE, val |-> cache[key], cache |-> cache, osrm |-> 1]}
        ELSE {[ok |-> TRUE, val |-> v, cache |-> Put(cache, key, v), osrm |-> 1] :
                    v \in RouteVals}
             \cup {[ok |-> FALSE, val |-> NoVal, cache |-> cache, osrm |-> 1]}

\* get_route storing an entry for a failed call
get_route_caches_failure(origin, dest, cache) ==
    LET key == _route_key(origin, dest)
    IN  IF key \in DOMAIN cache
        THEN {[ok |-> TRUE, val |-> cache[key], cache |-> cache, osrm |-> 0]}
        ELSE {[ok |-> TRUE, val |-> v, cache |-> Put(cache, key, v), osrm |-> 1] :
                    v \in RouteVals}
             \cup {[ok |-> FALSE, val |-> NoVal, cache |-> Put(cache, key, NoVal),
                    osrm |-> 1]}

\* get_route refreshing the entry on a hit
get_route_refreshes(origin, dest, cache) ==
    LET key == _route_key(origin, dest)
    IN  {[ok |-> TRUE, val |-> v, cache |-> Put(cache, key, v), osrm |-> 1] :
                v \in RouteVals}
        \cup {[ok |-> FALSE, val |-> NoVal, cache |-> cache, osrm |-> 1]}

\* get_route(origin, dest, route_cache): the outcomes it may have.  ok = FALSE
\* is route_via_osrm raising; cache is the dict afterwards; osrm counts the
\* provider calls it made.
get_route(origin, dest, cache) ==
    LET key == _route_key(origin, dest)
    IN  IF key \in DOMAIN cache
        THEN {[ok |-> TRUE, val |-> cache[key], cache |-> cache, osrm |-> 0]}
        ELSE {[ok |-> TRUE, val |-> v, cache |-> Put(cache, key, v), osrm |-> 1] :
                    v \in RouteVals}
             \cup {[ok |-> FALSE, val |-> NoVal, cache |-> cache, osrm |-> 1]}

\* np.argsort(dists): every index order that sorts dists.  The default kind
\* is not a stable sort, so equal distances may come out in either order.
argsort(dists) ==
    LET n == Len(dists)
    IN  {p \in [1..n -> 1..n] :
            /\ \A a, b \in 1..n : a # b => p[a] # p[b]
            /\ \A a, b \in 1..n : a < b => dists[p[a]] <= dists[p[b]]}

\* the prefilter without its slice: every candidate
prefilter_all(slat, slon, lats, topn) ==
    LET dists == [x \in 1..Len(lats) |-> haversine_km(slat, slon, lats[x], Lon0)]
    IN  argsort(dists)

\* idxs = np.argsort(haversine_km(slat, slon, lats, lons))[:min(topn, len(lats))]
prefilter(slat, slon, lats, topn) ==
    LET dists == [x \in 1..Len(lats) |-> haversine_km(slat, slon, lats[x], Lon0)]
    IN  {SubSeq(p, 1, Min(topn, Len(lats))) : p \in argsort(dists)}

\* the comparison always true: the last success wins
better_last(dist_km, best_d) == TRUE

\* if dist_km < best_d
better(dist_km, best_d) == dist_km < best_d

\* the pacing check without its "api_calls and"
pause_due_at_zero(calls, pause_every) ==
    pause_every # 0 /\ calls % pause_every = 0

\* if api_calls and pause_every and api_calls % pause_every == 0
pause_due(calls, pause_every) ==
    calls # 0 /\ pause_every # 0 /\ calls % pause_every = 0

-----------------------------------------------------------------------------
(* Validation *)

\* what pd.to_numeric(errors="coerce") makes of a cell that is not a number
NaN == 2000000000

\* model units in one degree
Deg == 1000000 * MicroDeg

isfinite(x) == x # NaN

\* _validate_latlon without its range check
_validate_latlon_finite_only(lat, lon) ==
    IF ~((\A k \in DOMAIN lat : isfinite(lat[k])) /\ (\A k \in DOMAIN lon : isfinite(lon[k])))
    THEN "Latitude/Longitude contain non-numeric values"
    ELSE ""

\* _validate_latlon(lat, lon): "" or the error message
_validate_latlon(lat, lon) ==
    IF ~((\A k \in DOMAIN lat : isfinite(lat[k])) /\ (\A k \in DOMAIN lon : isfinite(lon[k])))
    THEN "Latitude/Longitude contain non-numeric values"
    ELSE IF ~(/\ \A k \in DOMAIN lat : lat[k] >= -90 * Deg /\ lat[k] <= 90 * Deg
              /\ \A k \in DOMAIN lon : lon[k] >= -180 * Deg /\ lon[k] <= 180 * Deg)
    THEN "Latitude must be in [-90,90] and Longitude in [-180,180]"
    ELSE ""

-----------------------------------------------------------------------------
(* Python float arithmetic *)

\* Natural numbers beyond the machine word: little-endian sequences of digits
\* in base Base without leading zero digits; <<>> is zero.
DigitBits == 15
Base == 2^DigitBits

\* the index of the highest digit of a that is not 0
Top(a) ==
    IF \A k \in DOMAIN a : a[k] = 0 THEN 0
    ELSE CHOOSE k \in DOMAIN a : a[k] # 0 /\ \A l \in (k + 1)..Len(a) : a[l] = 0

Strip(a) == SubSeq(a, 1, Top(a))

\* n < Base^3, as every machine integer of the model is
BFromInt(n) == Strip(<<n % Base, (n \div Base) % Base, n \div (Base * Base)>>)

Digit(a, k) == IF k <= Len(a) THEN a[k] ELSE 0

\* a < Base^3
BToInt(a) == Digit(a, 1) + Base * Digit(a, 2) + Base * Base * Digit(a, 3)

\* a + b: digit k takes a carry when a digit below it overflows and every
\* digit between the two is Base - 1
BAdd(a, b) ==
    LET n == Max(Len(a), Len(b))
        s == [k \in 1..n |-> Digit(a, k) + Digit(b, k)]
        carry == [k \in 1..(n + 1) |->
                     IF \E g \in 1..(k - 1) :
                            s[g] >= Base /\ \A l \in (g + 1)..(k - 1) : s[l] = Base - 1
                     THEN 1 ELSE 0]
    IN  [k \in 1..n |-> (s[k] + carry[k]) % Base]
        \o (IF carry[n + 1] = 1 THEN <<1>> ELSE <<>>)

\* a - b for a >= b: digit k lends when a digit below it is short and every
\* digit between the two is 0
BSub(a, b) ==
    LET t == [k \in 1..Len(a) |-> a[k] - Digit(b, k)]
        borrow == [k \in 1..Len(a) |->
                      IF \E g \in 1..(k - 1) :
                             t[g] < 0 /\ \A l \in (g + 1)..(k - 1) : t[l] = 0
                      THEN 1 ELSE 0]
    IN  Strip([k \in 1..Len(a) |-> (t[k] - borrow[k] + Base) % Base])

\* -1, 0, 1 as a < b, a = b, a > b
BCmp(a, b) ==
    IF Len(a) < Len(b) THEN -1
    ELSE IF Len(a) > Len(b) THEN 1
    ELSE IF a = b THEN 0
    ELSE LET k == CHOOSE k \in 1..Len(a) :
                      a[k] # b[k] /\ \A l \in (k + 1)..Len(a) : a[l] = b[l]
         IN  IF a[k] < b[k] THEN -1 ELSE 1

\* a * d for one digit d: the low halves of the products, plus their high
\* halves one digit up
BMulDigit(a, d) ==
    Strip(BAdd([k \in 1..Len(a) |-> (a[k] * d) % Base],
               <<0>> \o [k \in 1..Len(a) |-> (a[k] * d) \div Base]))

\* a * Base^k
Up(a, k) == IF a = <<>> THEN <<>> ELSE [x \in 1..k |-> 0] \o a

\* a * b for b of at most four digits, as a mantissa is
BMul(a, b) ==
    BAdd(BAdd(BMulDigit(a, Digit(b, 1)), Up(BMulDigit(a, Digit(b, 2)), 1)),
         BAdd(Up(BMulDigit(a, Digit(b, 3)), 2), Up(BMulDigit(a, Digit(b, 4)), 3)))

\* the number of binary digits of a digit
Bits(n) == CHOOSE k \in 0..DigitBits : 2^k > n /\ (k = 0 \/ 2^(k - 1) <= n)

\* the number of binary digits of a
BitLen(a) == IF a = <<>> THEN 0 ELSE DigitBits * (Len(a) - 1) + Bits(a[Len(a)])

\* a * 2^k
BShl(a, k) == Up(BMulDigit(a, 2^(k % DigitBits)), k \div DigitBits)

\* floor(a / 2^k)
BShr(a, k) ==
    LET skip == k \div DigitBits
        s == k % DigitBits
    IN  IF skip >= Len(a) THEN <<>>
        ELSE Strip([x \in 1..(Len(a) - skip) |->
                       (a[skip + x] \div 2^s)
                       + (Digit(a, skip + x + 1) % 2^s) * 2^(DigitBits - s)])

\* the largest digit d with b * d <= r, for r < b * Base and b with its top
\* digit at least Base / 2: the quotient of the leading digits is at most two
\* too large
QDigit(r, b) ==
    LET n == Len(b)
        guess == Min((Digit(r, n + 1) * Base + Digit(r, n)) \div b[n], Base - 1)
    IN  IF BCmp(BMulDigit(b, guess), r) <= 0 THEN guess
        ELSE IF BCmp(BMulDigit(b, guess - 1), r) <= 0 THEN guess - 1
        ELSE guess - 2

\* one step of the long division: up is <<quotient, remainder>> of the digits
\* above, digit the next digit of the dividend
DivStep(up, digit, b) ==
    LET r2 == Strip(<<digit>> \o up[2])
        d == QDigit(r2, b)
    IN  <<Strip(<<d>> \o up[1]), BSub(r2, BMulDigit(b, d))>>

\* long division of the digits k.. of a by b: <<quotient, remainder>>, the
\* digits above k divided first.  (A CHOOSE from a singleton is its element:
\* TLC computes the bound value first, where it would compute a LET only when
\* asked for it, nested ever deeper.)
RECURSIVE DivFrom(_, _, _)
DivFrom(a, b, k) ==
    IF k > Len(a) - (Len(b) - 1) THEN <<<<>>, Strip(SubSeq(a, k, Len(a)))>>
    ELSE CHOOSE qr \in {DivStep(up, a[k], b) : up \in {DivFrom(a, b, k + 1)}} : TRUE

\* <<quotient, remainder>> of a by b with its top digit at least Base / 2
BDivMod(a, b) == DivFrom(a, b, 1)

\* A finite float: [neg |-> sign, m |-> M, e |-> E] is (-1)^neg * M * 2^E with
\* 2^52 <= M < 2^53, or M = <<>> for 0.0.
Mantissa == 53
Zero == [neg |-> FALSE, m |-> <<>>, e |-> 0]

\* a binary digit of a, the lowest being digit 0
BitAt(a, bit) == (Digit(a, (bit \div DigitBits) + 1) \div 2^(bit % DigitBits)) % 2

\* some binary digit of a below the given one is 1
AnyBelow(a, bit) ==
    \/ \E x \in 1..Min(bit \div DigitBits, Len(a)) : a[x] # 0
    \/ Digit(a, (bit \div DigitBits) + 1) % 2^(bit % DigitBits) # 0

\* n * 2^e rounded to 53 binary digits, to nearest and ties to even; sticky
\* says that the exact value is a little more than n * 2^e
RoundTo53(n, e, sticky) ==
    LET len == BitLen(n)
    IN  IF n = <<>> THEN Zero
        ELSE IF len <= Mantissa
        THEN [neg |-> FALSE, m |-> BShl(n, Mantissa - len), e |-> e - (Mantissa - len)]
        ELSE LET k == len - Mantissa
                 q == BShr(n, k)
                 up == /\ BitAt(n, k - 1) = 1
                       /\ sticky \/ AnyBelow(n, k - 1) \/ q[1] % 2 = 1
                 q1 == IF up THEN BAdd(q, <<1>>) ELSE q
             IN  IF BitLen(q1) > Mantissa
                 THEN [neg |-> FALSE, m |-> BShr(q1, 1), e |-> e + k + 1]
                 ELSE [neg |-> FALSE, m |-> q1, e |-> e + k]

\* float(n) for an integer n >= 0
float(n) == RoundTo53(BFromInt(n), 0, FALSE)

\* x * y for x, y >= 0
fmul(x, y) ==
    IF x.m = <<>> \/ y.m = <<>> THEN Zero
    ELSE RoundTo53(BMul(x.m, y.m), x.e + y.e, FALSE)

\* the shift that brings the top digit of a mantissa to Base / 2 or more
NormBits == (DigitBits - (Mantissa % DigitBits)) % DigitBits

\* x / y for x >= 0, y > 0
fdiv(x, y) ==
    IF x.m = <<>> THEN Zero
    ELSE CHOOSE r \in {RoundTo53(qr[1], x.e - y.e - (Mantissa + 3), qr[2] # <<>>) :
                          qr \in {BDivMod(BShl(x.m, Mantissa + 3 + NormBits),
                                          BShl(y.m, NormBits))}} : TRUE

\* x + y for x, y >= 0
fadd(x, y) ==
    IF x.m = <<>> THEN y
    ELSE IF y.m = <<>> THEN x
    ELSE LET e == Min(x.e, y.e)
         IN  RoundTo53(BAdd(BShl(x.m, x.e - e), BShl(y.m, y.e - e)), e, FALSE)

\* x - y for x, y >= 0
fsub(x, y) ==
    IF y.m = <<>> THEN x
    ELSE IF x.m = <<>> THEN [y EXCEPT !.neg = TRUE]
    ELSE LET e == Min(x.e, y.e)
             a == BShl(x.m, x.e - e)
             b == BShl(y.m, y.e - e)
         IN  IF BCmp(a, b) >= 0 THEN RoundTo53(BSub(a, b), e, FALSE)
             ELSE [RoundTo53(BSub(b, a), e, FALSE) EXCEPT !.neg = TRUE]

\* x <= y for x, y >= 0
fle(x, y) ==
    IF x.m = <<>> THEN TRUE
    ELSE IF y.m = <<>> THEN FALSE
    ELSE LET e == Min(x.e, y.e)
         IN  BCmp(BShl(x.m, x.e - e), BShl(y.m, y.e - e)) <= 0

\* int(x): truncation towards zero
int(x) ==
    LET n == IF x.m = <<>> THEN 0
             ELSE IF x.e >= 0 THEN BToInt(BShl(x.m, x.e))
             ELSE BToInt(BShr(x.m, -x.e))
    IN  IF x.neg THEN -n ELSE n

-----------------------------------------------------------------------------
(* The catchment aggregator *)

\* the defaults of calculate_catchment_area
DefaultRadius == 50
DefaultYear == 2023

\* the share of the population taken as active when no active value is known
ActiveShare == fdiv(float(65), float(100))

\* an exception raised by a lookup
Raised == "raised"

\* fetch_eurostat_data for the region codes asked for: the rows of the frame.
\* ans is the provider's answer for the year: kind "down" (the request fails,
\* which fetch_eurostat_data turns into an empty frame), "data" (rows: region
\* code -> value) or "bad" (rows, one of whose values is not a number).
fetch_eurostat_data(ans, codes) ==
    IF ans.kind = "down"
    THEN [rows |-> EmptyDict, bad |-> FALSE]
    ELSE LET geo == DOMAIN ans.rows \cap {codes[k] : k \in DOMAIN codes}
         IN  [rows |-> [c \in geo |-> ans.rows[c]], bad |-> ans.kind = "bad" /\ geo # {}]

\* the frame a get_nuts3_* function converts: that of the year, or when it is
\* empty that of the year before.  answers = <<for the year, for the year before>>
eurostat_frame(answers, codes) ==
    LET df == fetch_eurostat_data(answers[1], codes)
    IN  IF DOMAIN df.rows = {} THEN fetch_eurostat_data(answers[2], codes) ELSE df

\* get_nuts3_population: float(row["value"]) per region, or the conversion raises
get_nuts3_population(answers, codes) ==
    LET df == eurostat_frame(answers, codes)
    IN  IF codes = <<>> THEN [raised |-> FALSE, map |-> EmptyDict]
        ELSE IF df.bad THEN [raised |-> TRUE, map |-> EmptyDict]
        ELSE [raised |-> FALSE, map |-> [c \in DOMAIN df.rows |-> float(df.rows[c])]]

\* get_nuts3_unemployed_persons: float(row["value"]) * 1000
get_nuts3_unemployed_persons(answers, codes) ==
    LET df == eurostat_frame(answers, codes)
    IN  IF codes = <<>> THEN [raised |-> FALSE, map |-> EmptyDict]
        ELSE IF df.bad THEN [raised |-> TRUE, map |-> EmptyDict]
        ELSE [raised |-> FALSE,
              map |-> [c \in DOMAIN df.rows |-> fmul(float(df.rows[c]), float(1000))]]

\* get_nuts3_active_population: float(row["value"]) * 1000
get_nuts3_active_population(answers, codes) ==
    LET df == eurostat_frame(answers, codes)
    IN  IF codes = <<>> THEN [raised |-> FALSE, map |-> EmptyDict]
        ELSE IF df.bad THEN [raised |-> TRUE, map |-> EmptyDict]
        ELSE [raised |-> FALSE,
              map |-> [c \in DOMAIN df.rows |-> fmul(float(df.rows[c]), float(1000))]]

\* weight = 1.0 / (1.0 + dist / 10.0)
weight(dist) == fdiv(float(1), fadd(float(1), fdiv(float(dist), float(10))))

\* the loop body that counts a region's weight only when its values are known
add_weighted_if_known(t, nuts3_code, w, pop_data, unemployed_data, active_pop_data) ==
    [pop |-> IF nuts3_code \in DOMAIN pop_data
             THEN fadd(t.pop, fmul(pop_data[nuts3_code], w)) ELSE t.pop,
     unemployed |-> IF nuts3_code \in DOMAIN unemployed_data
                    THEN fadd(t.unemployed, fmul(unemployed_data[nuts3_code], w))
                    ELSE t.unemployed,
     active |-> IF nuts3_code \in DOMAIN active_pop_data
                THEN fadd(t.active, fmul(active_pop_data[nuts3_code], w))
                ELSE IF nuts3_code \in DOMAIN pop_data
                THEN fadd(t.active, fmul(fmul(pop_data[nuts3_code], ActiveShare), w))
                ELSE t.active,
     weight |-> IF nuts3_code \in DOMAIN pop_data /\ nuts3_code \in DOMAIN unemployed_data
                THEN fadd(t.weight, w) ELSE t.weight]

\* lines 681-695, the body of the loop once the weight w is computed: the
\* weight joins the weights whatever is known of the region, each total grows
\* by the region's value when there is one, and the active population stands
\* in 65 % of the population when only that is known
add_weighted(t, nuts3_code, w, pop_data, unemployed_data, active_pop_data) ==
    [pop |-> IF nuts3_code \in DOMAIN pop_data
             THEN fadd(t.pop, fmul(pop_data[nuts3_code], w)) ELSE t.pop,
     unemployed |-> IF nuts3_code \in DOMAIN unemployed_data
                    THEN fadd(t.unemployed, fmul(unemployed_data[nuts3_code], w))
                    ELSE t.unemployed,
     active |-> IF nuts3_code \in DOMAIN active_pop_data
                THEN fadd(t.active, fmul(active_pop_data[nuts3_code], w))
                ELSE IF nuts3_code \in DOMAIN pop_data
                THEN fadd(t.active, fmul(fmul(pop_data[nuts3_code], ActiveShare), w))
                ELSE t.active,
     weight |-> fadd(t.weight, w)]

\* one pass of "for nuts3_code, dist in zip(nearby_nuts3, nearby_distances)":
\* the totals and the sum of the weights after it
add_region(t, region, pop_data, unemployed_data, active_pop_data) ==
    CHOOSE r \in {add_weighted(t, region.id, w, pop_data, unemployed_data,
                               active_pop_data) : w \in {weight(region.d)}} : TRUE

\* the loop over the first k regions (sum(weights) adds them in list order)
RECURSIVE totals(_, _, _, _, _)
totals(nearby, k, pop_data, unemployed_data, active_pop_data) ==
    IF k = 0
    THEN [pop |-> Zero, unemployed |-> Zero, active |-> Zero, weight |-> Zero]
    ELSE CHOOSE r \in {add_region(t, nearby[k], pop_data, unemployed_data,
                                  active_pop_data) :
                          t \in {totals(nearby, k - 1, pop_data, unemployed_data,
                                        active_pop_data)}} : TRUE

\* results as calculate_catchment_area initialises it
no_catchment(radius_km, year) ==
    [catchment_radius_km |-> radius_km, total_population |-> 0, unemployed_persons |-> 0,
     active_population |-> 0, employed_persons |-> 0, nuts3_regions |-> <<>>,
     data_year |-> year]

\* the catchment without the region the site lies in
nearby_nuts3_no_fallback(x, radius_km) ==
    [raised |-> FALSE,
     regions |-> SelectSeq(x.regions,
                           LAMBDA r : fle(float(r.d), float(radius_km)) /\ r.id # "")]

\* the regions of the catchment (lines 650-667): those whose centroid lies
\* within the radius and that carry a NUTS_ID, else the region the site itself
\* lies in; raised when that fallback lookup raises
nearby_nuts3(x, radius_km) ==
    LET within == SelectSeq(x.regions,
                            LAMBDA r : fle(float(r.d), float(radius_km)) /\ r.id # "")
    IN  IF within # <<>> THEN [raised |-> FALSE, regions |-> within]
        ELSE IF x.here = Raised THEN [raised |-> TRUE, regions |-> <<>>]
        ELSE IF x.here # "" THEN [raised |-> FALSE,
                                  regions |-> <<[id |-> x.here, d |-> 0]>>]
        ELSE [raised |-> FALSE, regions |-> <<>>]

region_codes(nearby) == [k \in DOMAIN nearby |-> nearby[k].id]

\* the three indicator tables of lines 673-675
catchment_data(x, codes) ==
    [pop |-> get_nuts3_population(x.pop, codes),
     unemployed |-> get_nuts3_unemployed_persons(x.unemployed, codes),
     active |-> get_nuts3_active_population(x.active, codes)]

\* lines 697-701: the sums divided by the sum of the weights
weighted_means(t) ==
    [pop |-> fdiv(t.pop, t.weight), unemployed |-> fdiv(t.unemployed, t.weight),
     active |-> fdiv(t.active, t.weight)]

\* the results with the employed persons never below zero
catchment_results_clamped(empty, codes, mean) ==
    [empty EXCEPT
       !.total_population = int(mean.pop),
       !.unemployed_persons = int(mean.unemployed),
       !.active_population = int(mean.active),
       !.employed_persons = Max(0, int(fsub(mean.active, mean.unemployed))),
       !.nuts3_regions = SubSeq(codes, 1, Min(5, Len(codes)))]

catchment_results(empty, codes, mean) ==
    [empty EXCEPT
       !.total_population = int(mean.pop),
       !.unemployed_persons = int(mean.unemployed),
       !.active_population = int(mean.active),
       !.employed_persons = int(fsub(mean.active, mean.unemployed)),
       !.nuts3_regions = SubSeq(codes, 1, Min(5, Len(codes)))]

\* lines 669-707, once the regions are chosen
catchment_of(empty, nearby, codes, data) ==
    IF nearby = <<>> THEN empty
    ELSE IF data.pop.raised \/ data.unemployed.raised \/ data.active.raised
    THEN empty
    ELSE catchment_results(empty, codes,
             weighted_means(totals(nearby, Len(nearby), data.pop.map,
                                   data.unemployed.map, data.active.map)))

catchment_near(empty, x, near) ==
    IF near.raised THEN empty
    ELSE catchment_of(empty, near.regions, region_codes(near.regions),
                      catchment_data(x, region_codes(near.regions)))

\* calculate_catchment_area(site_lat, site_lon, radius_km, year).  x is what the
\* outside world holds for the site: ok (the NUTS3 dataset is loaded), regions
\* (per loaded geometry its NUTS_ID and the distance d of its centroid, km),
\* here (the NUTS_ID nuts3_lookup finds for the site, "" for none, or Raised),
\* and the statistics provider's answers for the three indicators.
calculate_catchment_area(x, radius_km, year) ==
    IF ~x.ok THEN no_catchment(radius_km, year)
    ELSE catchment_near(no_catchment(radius_km, year), x, nearby_nuts3(x, radius_km))

-----------------------------------------------------------------------------
(* Region lookups: _nuts_lookup_generic and AdminIndex.lookup *)

\* the points a lookup may be asked for
Points == {1, 2}

\* a loaded geometry: the points inside its bounding box and, among these,
\* the points it covers
Geometries == UNION {{[box |-> b, body |-> c] : c \in SUBSET b} : b \in SUBSET Points}

\* what STRtree.query does: "indices" (it takes predicate= and returns
\* positions), "geometries" (predicate= is a TypeError, query(pt) returns the
\* geometries whose bounding box holds the point), "raises"
Libraries == {"indices", "geometries", "raises"}

\* {} as the answer of a lookup; a region is answered by its position in props
NoRegion == 0

\* the loaded geometries that cover the point
Covering(idx, pt) == {k \in DOMAIN idx.geoms : pt \in idx.geoms[k].body}

\* the members of S in the order the tree returns them
InTreeOrder(idx, S) == SelectSeq(idx.order, LAMBDA k : k \in S)

\* the position of the first loaded geometry equal to the k-th:
\* "cand is geom or cand.equals(geom)", self.geoms.index(g)
IndexOf(idx, k) == CHOOSE n \in DOMAIN idx.geoms :
                       /\ idx.geoms[n] = idx.geoms[k]
                       /\ \A m \in 1..(n - 1) : idx.geoms[m] # idx.geoms[k]

\* "for i, geom in enumerate(geoms): if geom.contains(pt) or geom.intersects(pt)"
linear_scan(idx, pt) ==
    IF Covering(idx, pt) = {} THEN NoRegion
    ELSE CHOOSE k \in Covering(idx, pt) : \A m \in Covering(idx, pt) : k <= m

\* candidates_indices after the direct query and its handlers
candidates_indices(idx, pt) ==
    CASE idx.lib = "indices" -> InTreeOrder(idx, Covering(idx, pt))
      [] idx.lib = "geometries" ->
             LET found == InTreeOrder(idx, {k \in DOMAIN idx.geoms :
                                                  pt \in idx.geoms[k].box})
             IN  [n \in DOMAIN found |-> IndexOf(idx, found[n])]
      [] OTHER -> <<>>

\* what a lookup does: it returns props[region] (NoRegion: {}) or raises
Returns(region) == [raised |-> FALSE, region |-> region]
Raises == [raised |-> TRUE, region |-> NoRegion]

\* the first candidate, else the first candidate of the query with the
\* buffered point that holds the point, else the direct iteration
nuts_search(idx, pt) ==
    LET buffered == IF idx.lib = "indices" THEN InTreeOrder(idx, Covering(idx, pt))
                    ELSE <<>>
    IN  IF candidates_indices(idx, pt) # <<>> THEN candidates_indices(idx, pt)[1]
        ELSE IF buffered # <<>> THEN buffered[1]
        ELSE linear_scan(idx, pt)

\* a lookup that reads the tree of a dataset that is not loaded, outside
\* any handler
_nuts_lookup_unguarded(idx, pt) ==
    IF ~idx.ok THEN Raises ELSE Returns(nuts_search(idx, pt))

\* _nuts_lookup_generic(idx, lat, lon)
_nuts_lookup_generic(idx, pt) ==
    IF ~idx.ok THEN Returns(NoRegion) ELSE Returns(nuts_search(idx, pt))

\* AdminIndex.lookup(lat, lon).  The cands that pass "g.covers(pt) or ..." are
\* taken in the tree's order; the positions query(pt) returns under
\* "indices" have no such method and are skipped.
AdminIndex_lookup(idx, pt) ==
    LET hits == IF idx.lib = "geometries" THEN InTreeOrder(idx, Covering(idx, pt))
                ELSE <<>>
    IN  IF ~idx.ok THEN Returns(NoRegion)
        ELSE IF hits # <<>> THEN Returns(IndexOf(idx, hits[1]))
        ELSE Returns(linear_scan(idx, pt))

-----------------------------------------------------------------------------
(* The arguments a run may be started with *)
Batches == UNION {[1..n -> SiteLats] : n \in 1..MaxSites}

\* the Longitude column of the three frames: in each frame every row has the
\* same longitude, that of the common meridian in a frame that is valid
Meridian == [sites |-> Lon0, airports |-> Lon0, seaports |-> Lon0]

\* the levels of official boundaries load_official_PL may have loaded
Levels == {"woj", "powiat", "gmina"}

\* the most steps with an outcome of their own a run with arguments c can take
Work(c) ==
    Len(c.sites) * (Min(c.topn, Len(c.airports)) + Min(c.topn, Len(c.seaports))
                    + (IF c.include_highway THEN 1 ELSE 0)
                    + (IF c.include_ref THEN 1 ELSE 0)
                    + (IF c.has_cities THEN 1 ELSE 0)
                    + (IF c.has_shapely THEN 1 ELSE 0)
                    + (IF c.include_catchment THEN 1 ELSE 0)
                    + (IF c.official # {} \/ c.enrich_osm_admin THEN 1 ELSE 0))

\* runs of the distance steps alone: valid frames, the enrichment switched off
Settings ==
    {c \in [sites : Batches, airports : {Airports, <<>>}, seaports : {Seaports},
            lons : {Meridian}, topn : 0..MaxTopN, pause_every : 0..MaxPauseEvery,
            include_highway : BOOLEAN, include_ref : BOOLEAN, has_cities : BOOLEAN,
            has_shapely : {FALSE}, include_catchment : {FALSE},
            enrich_osm_admin : {FALSE}, official : {{}},
            air_named : {TRUE}, sea_named : {TRUE}, progress_hook : {"none"}] :
        Work(c) <= MaxWork}

\* coordinates that do not pass the validation: not a number, out of range
BadLats == {NaN, 90 * Deg + 1, -90 * Deg - 1}
BadLons == {NaN, 180 * Deg + 1, -180 * Deg - 1}

\* a frame one of whose latitudes is bad
Spoilt(lats) ==
    {[lats EXCEPT ![k] = b] : k \in DOMAIN lats, b \in BadLats}

\* the Longitude columns with at most one frame's longitude bad
LonColumns ==
    {Meridian} \cup {[Meridian EXCEPT ![f] = b] : f \in DOMAIN Meridian, b \in BadLons}

\* runs with every feature: the enrichment steps, the official boundaries
\* loaded or not, frames that may lack their name column
ValidBatchSettings ==
    {c \in [sites : Batches, airports : {Airports, <<>>}, seaports : {Seaports, <<>>},
            lons : {Meridian}, topn : 0..1, pause_every : {0},
            include_highway : BOOLEAN, include_ref : BOOLEAN, has_cities : BOOLEAN,
            has_shapely : BOOLEAN, include_catchment : BOOLEAN,
            enrich_osm_admin : BOOLEAN, official : {{}, {"woj"}},
            air_named : BOOLEAN, sea_named : BOOLEAN, progress_hook : {"none"}] :
        Work(c) <= MaxWork}

\* runs whose frames may hold a bad coordinate
SpoiltBatchSettings ==
    [sites : Batches \cup UNION {Spoilt(b) : b \in Batches},
     airports : {Airports} \cup Spoilt(Airports),
     seaports : {Seaports} \cup Spoilt(Seaports),
     lons : LonColumns, topn : {1}, pause_every : {0},
     include_highway : {FALSE}, include_ref : {TRUE}, has_cities : {FALSE},
     has_shapely : {FALSE}, include_catchment : {FALSE},
     enrich_osm_admin : {FALSE}, official : {{}},
     air_named : {TRUE}, sea_named : {TRUE}, progress_hook : {"none"}]

NoCfg ==
    [sites |-> <<>>, airports |-> <<>>, seaports |-> <<>>, lons |-> Meridian, topn |-> 0,
     pause_every |-> 0, include_highway |-> FALSE, include_ref |-> FALSE,
     has_cities |-> FALSE, has_shapely |-> FALSE, include_catchment |-> FALSE,
     enrich_osm_admin |-> FALSE, official |-> {}, air_named |-> TRUE, sea_named |-> TRUE,
     progress_hook |-> "none"]

\* the Longitude column of a frame
Column(lats, lon) == [k \in DOMAIN lats |-> lon]

\* err = _validate_latlon(sites) or _validate_latlon(airports) or _validate_latlon(seaports)
validate(c) ==
    LET s == _validate_latlon(c.sites, Column(c.sites, c.lons.sites))
        a == _validate_latlon(c.airports, Column(c.airports, c.lons.airports))
        p == _validate_latlon(c.seaports, Column(c.seaports, c.lons.seaports))
    IN  IF s # "" THEN s ELSE IF a # "" THEN a ELSE p

BatchSettings ==
    ValidBatchSettings \cup {c \in SpoiltBatchSettings : validate(c) # "" \/ Work(c) <= MaxWork}

\* best initialised to the first candidate
NoBest_first == [f |-> 1, d |-> inf, t |-> inf]

NoBest == [f |-> None, d |-> inf, t |-> inf]

\* the catchment radius of process_batch, and int(catchment_radius) in its
\* column names
CatchmentCols ==
    {"Catchment Population (50km)", "Catchment Unemployed (50km)",
     "Catchment Active Pop (50km)", "Catchment Employed (50km)", "Catchment NUTS3 Regions"}

RefCols == {"Distance to Ref (km)", "Time to Ref (min)"}

\* the columns of out_rec
Columns(c) ==
    {"Project ID", "Site ID", "Site Name", "Latitude", "Longitude",
     "Nearest Airport", "Nearest Airport Code", "Distance to Airport (km)",
     "Time to Airport (min)",
     "Nearest Seaport", "Distance to Seaport (km)", "Time to Seaport (min)",
     "Nearest Highway Access", "Distance to Highway (km)", "Time to Highway (min)",
     "Municipality", "Municipality Code", "County", "County Code",
     "Voivodeship", "Voivodeship Code",
     "NUTS2 Code", "NUTS2 Name", "NUTS3 Code", "NUTS3 Name",
     "Nearest City (100k+)", "City Population", "Distance to City (km)",
     "Time to City (min)"}
    \cup (IF c.include_catchment THEN CatchmentCols ELSE {})
    \cup (IF c.include_ref THEN RefCols ELSE {})

\* out_rec as the loop body initialises it for row k of the sites frame; the
\* row's Site Name is its position, its Project ID and Site ID are empty
new_out_rec(c, k) ==
    [col \in Columns(c) |->
        CASE col = "Site Name" -> k
          [] col = "Project ID" -> ""
          [] col = "Site ID" -> ""
          [] col = "Latitude" -> Fmt6(c.sites[k])
          [] col = "Longitude" -> Fmt6(c.lons.sites)
          [] OTHER -> None]

Set(rec, col, v) == [rec EXCEPT ![col] = v]

\* "if best_air is not None:" and the four assignments under it
airport_fields(rec, b) ==
    IF b.f # None
    THEN Set(Set(Set(Set(rec, "Nearest Airport", b.f),
                     "Nearest Airport Code", ""),
                 "Distance to Airport (km)", round1(b.d)),
             "Time to Airport (min)", round1(b.t))
    ELSE rec

\* the seaport written only when an airport was found
seaport_fields_needs_airport(rec, b) ==
    IF b.f # None /\ rec["Nearest Airport"] # None
    THEN Set(Set(Set(rec, "Nearest Seaport", b.f),
                 "Distance to Seaport (km)", round1(b.d)),
             "Time to Seaport (min)", round1(b.t))
    ELSE rec

\* "if best_port is not None:" and the three assignments under it
seaport_fields(rec, b) ==
    IF b.f # None
    THEN Set(Set(Set(rec, "Nearest Seaport", b.f),
                 "Distance to Seaport (km)", round1(b.d)),
             "Time to Seaport (min)", round1(b.t))
    ELSE rec

slat == cfg.sites[i]
slon == cfg.lons.sites
site_origin == <<slat, slon>>

\* the steps of the loop body in the order of the source, and the step after
Pipeline ==
    <<"airport", "seaport", "highway", "ref", "city", "nuts", "catchment", "admin",
      "finish">>

\* the steps with the NUTS and admin lookups first
after_lookups_first(step) ==
    LET order == <<"nuts", "admin", "airport", "seaport", "highway", "ref", "city",
                   "catchment", "finish">>
        k == CHOOSE n \in DOMAIN order : order[n] = step
    IN  order[k + 1]

after(step) ==
    LET k == CHOOSE n \in DOMAIN Pipeline : Pipeline[n] = step
    IN  Pipeline[k + 1]

\* what the outside world may hold for a site when the catchment step runs:
\* the NUTS3 dataset not loaded, or one region around the site with its
\* statistics
NoAnswer == <<[kind |-> "down", rows |-> EmptyDict], [kind |-> "down", rows |-> EmptyDict]>>
Answer(rows) == <<[kind |-> "data", rows |-> rows], [kind |-> "down", rows |-> EmptyDict]>>
SiteCatchments ==
    {[ok |-> FALSE, regions |-> <<>>, here |-> "", pop |-> NoAnswer,
      unemployed |-> NoAnswer, active |-> NoAnswer],
     [ok |-> TRUE, regions |-> <<[id |-> "PL911", d |-> 5]>>, here |-> "PL911",
      pop |-> Answer([c \in {"PL911"} |-> 100000]),
      unemployed |-> Answer([c \in {"PL911"} |-> 5]),
      active |-> Answer([c \in {"PL911"} |-> 48])]}

\* the calls of calculate_catchment_area the sites of a run can make
SiteCatchmentCalls ==
    {[in |-> x, out |-> calculate_catchment_area(x, DefaultRadius, DefaultYear)] :
        x \in SiteCatchments}

NoPrev == [run |-> 0, results |-> <<>>, seen |-> {}, memo |-> EmptyDict]
NoCatch == [called |-> FALSE, in |-> <<>>, out |-> <<>>]
NoLook == [called |-> FALSE, in |-> <<>>, out |-> <<>>]

-----------------------------------------------------------------------------
\* the state between runs, but for the session and the catchment call
Idle ==
    /\ pc = "idle"
    /\ cfg = NoCfg
    /\ route_cache = EmptyDict
    /\ i = 0
    /\ cand = <<>>
    /\ j = 0
    /\ best = NoBest
    /\ api_calls = 0
    /\ out_rec = <<>>
    /\ log_rec = <<>>
    /\ results = <<>>
    /\ logs = <<>>
    /\ sleeps = 0
    /\ n_osrm = 0
    /\ attempts = <<>>
    /\ failed = {}
    /\ trail = <<>>
    /\ prev = NoPrev

Init ==
    /\ Idle
    /\ session = [has |-> FALSE, route_cache |-> EmptyDict]
    /\ memo = EmptyDict
    /\ catch = NoCatch
    /\ look = NoLook

\* process_batch(c) up to the site loop: the validation, which may raise, and
\* route_cache = st.session_state.get("route_cache", {})
process_batch(c) ==
    /\ cfg' = c
    /\ results' = <<>>
    /\ logs' = <<>>
    /\ api_calls' = 0
    /\ sleeps' = 0
    /\ n_osrm' = 0
    /\ attempts' = <<>>
    /\ trail' = <<>>
    /\ cand' = <<>>
    /\ j' = 0
    /\ best' = NoBest
    /\ out_rec' = <<>>
    /\ log_rec' = <<>>
    /\ failed' = {}
    /\ IF validate(c) # ""
       THEN /\ pc' = "raised"
            /\ i' = 0
            /\ route_cache' = EmptyDict
       ELSE /\ pc' = "site"
            /\ i' = 1
            /\ route_cache' = IF session.has THEN session.route_cache ELSE EmptyDict
    /\ UNCHANGED <<session, memo, catch, look>>

\* the Calculate button with the distance steps alone
StartRun ==
    /\ pc = "idle"
    /\ \E c \in Settings : process_batch(c)
    /\ UNCHANGED prev

\* top of the loop body: log_rec, out_rec, and the airport prefilter
BeginSite ==
    /\ pc = "site"
    /\ log_rec' = <<>>
    /\ out_rec' = new_out_rec(cfg, i)
    /\ cand' \in prefilter(slat, slon, cfg.airports, cfg.topn)
    /\ j' = 1
    /\ best' = NoBest
    /\ pc' = Pipeline[1]
    /\ UNCHANGED <<session, cfg, route_cache, i, api_calls, results, logs,
                   sleeps, n_osrm, attempts, memo, failed, trail, prev, catch, look>>

\* history only: the coordinate pair to the nearest micro-degree, found by
\* search and not by the code's formatting
Nearest(x) == CHOOSE n \in 0..(x + 1) : 2 * Abs(MicroDeg * n - x) < MicroDeg
RoundedPair(origin, dest) ==
    <<Nearest(origin[1]), Nearest(origin[2]), Nearest(dest[1]), Nearest(dest[2])>>

\* history only: a step of site i ended
Ended(step, out) == Append(trail, [site |-> i, step |-> step, out |-> out])

\* "if progress_hook: progress_hook(...)": whether the call raises.  The
\* observer is the caller's; one that is attached may fail at any call.
hook_raises(c) == IF c.progress_hook = "attached" THEN BOOLEAN ELSE {FALSE}

\* the observer's failure at a pacing check that is due: the step's handler
\* takes over before the pause and before the get_route call
pause_raises(c, calls) ==
    IF pause_due(calls, c.pause_every) THEN hook_raises(c) ELSE {FALSE}

\* the outcomes of a step's try block up to the get_route call: the call's,
\* or a failure before the call was reached
routed(raises, dest) ==
    IF raises THEN {[ok |-> FALSE, val |-> NoVal, osrm |-> 0, cache |-> route_cache]}
    ELSE get_route(site_origin, dest, route_cache)

\* a step that left its try block before the pause
Skipped == UNCHANGED <<route_cache, session, sleeps, n_osrm, api_calls, attempts,
                       memo, failed>>

\* the pacing check and the get_route call of one step, with outcome r:
\* what they do to the cache, the pause and the history
Attempt(step, f, dest, r, after_calls) ==
    LET key == RoundedPair(site_origin, dest)
        slept == pause_due(api_calls, cfg.pause_every)
    IN  /\ route_cache' = r.cache
        /\ session' = IF session.has THEN [session EXCEPT !.route_cache = r.cache]
                      ELSE session
        /\ sleeps' = sleeps + (IF slept THEN 1 ELSE 0)
        /\ n_osrm' = n_osrm + r.osrm
        /\ api_calls' = after_calls
        /\ attempts' = Append(attempts,
              [site |-> i, step |-> step, f |-> f, routed |-> TRUE, key |-> key,
               origin |-> site_origin, dest |-> dest,
               same |-> r.cache = route_cache,
               known |-> key \in DOMAIN memo,
               prior |-> IF key \in DOMAIN memo THEN memo[key] ELSE NoVal,
               refail |-> key \in failed,
               ok |-> r.ok, val |-> r.val, osrm |-> r.osrm, slept |-> slept,
               before |-> api_calls, after |-> after_calls])
        /\ memo' = IF r.ok /\ key \notin DOMAIN memo THEN Put(memo, key, r.val) ELSE memo
        /\ failed' = IF r.ok THEN failed \ {key} ELSE failed \cup {key}

\* log_rec["steps"].append({"step": ..., "error": ...}) of a step's handler
log_error(log, step, who) == Append(log, [kind |-> "error", step |-> step, who |-> who])

\* an exception outside the step handlers ending the run
after_fatal_ends_run == "return"

\* "except Exception as e:" around the loop body appends the fatal entry; the
\* appends of the log and the record follow it
after_fatal == "finish"

\* a counter of the provider's calls alone
calls_after_provider_only(calls, r) == calls + r.osrm

\* "api_calls += 1" follows the get_route call inside the try block: it is
\* reached when the call returned, whether the cache or the provider answered
calls_after(calls, r) == IF r.ok THEN calls + 1 ELSE calls

\* one iteration of a candidate loop.  When the call fails the handler formats
\* the candidate's name into the log entry; in a frame without the name
\* column that raises, and the handler around the whole loop body takes over.
Candidate(step, lats, lon, named) ==
    /\ j <= Len(cand)
    /\ LET f == cand[j]
           dest == <<lats[f], lon>>
       IN  \E raises \in pause_raises(cfg, api_calls) : \E r \in routed(raises, dest) :
             /\ IF raises THEN Skipped
                ELSE Attempt(step, f, dest, r, calls_after(api_calls, r))
             /\ IF r.ok \/ named
                THEN /\ best' = IF r.ok /\ better(r.val[1], best.d)
                                THEN [f |-> f, d |-> r.val[1], t |-> r.val[2]] ELSE best
                     /\ log_rec' = IF r.ok THEN log_rec ELSE log_error(log_rec, step, f)
                     /\ j' = j + 1
                     /\ UNCHANGED <<pc, cand, trail>>
                ELSE /\ log_rec' = Append(log_rec,
                                          [kind |-> "fatal", step |-> step, who |-> f])
                     /\ pc' = after_fatal
                     /\ trail' = Ended(step, "fatal")
                     /\ cand' = <<>>
                     /\ j' = 0
                     /\ best' = NoBest
    /\ UNCHANGED <<cfg, i, out_rec, results, logs, prev, catch, look>>

\* how a candidate loop ended
LoopOut == IF best.f # None THEN "ok" ELSE IF cand = <<>> THEN "none" ELSE "failed"

\* one iteration of "for _, a in cand_airports.iterrows()"
AirportAttempt ==
    /\ pc = "airport"
    /\ Candidate("Airport", cfg.airports, cfg.lons.airports, cfg.air_named)

\* after the airport loop: the airport fields, then the seaport prefilter
AirportDone ==
    /\ pc = "airport"
    /\ j > Len(cand)
    /\ out_rec' = airport_fields(out_rec, best)
    /\ cand' \in prefilter(slat, slon, cfg.seaports, cfg.topn)
    /\ j' = 1
    /\ best' = NoBest
    /\ pc' = after("airport")
    /\ trail' = Ended("Airport", LoopOut)
    /\ UNCHANGED <<session, cfg, route_cache, i, api_calls, log_rec, results, logs,
                   sleeps, n_osrm, attempts, memo, failed, prev, catch, look>>

\* one iteration of "for _, p in cand_ports.iterrows()"
SeaportAttempt ==
    /\ pc = "seaport"
    /\ Candidate("Seaport", cfg.seaports, cfg.lons.seaports, cfg.sea_named)

\* after the seaport loop: the seaport fields
SeaportDone ==
    /\ pc = "seaport"
    /\ j > Len(cand)
    /\ out_rec' = seaport_fields(out_rec, best)
    /\ cand' = <<>>
    /\ j' = 0
    /\ best' = NoBest
    /\ pc' = after("seaport")
    /\ trail' = Ended("Seaport", LoopOut)
    /\ UNCHANGED <<session, cfg, route_cache, i, api_calls, log_rec, results, logs,
                   sleeps, n_osrm, attempts, memo, failed, prev, catch, look>>

\* a pacing check whose step makes no get_route call
NoRoute(step, after_calls) ==
    LET slept == pause_due(api_calls, cfg.pause_every)
    IN  /\ sleeps' = sleeps + (IF slept THEN 1 ELSE 0)
        /\ api_calls' = after_calls
        /\ attempts' = Append(attempts,
              [site |-> i, step |-> step, f |-> None, routed |-> FALSE, key |-> <<>>,
               origin |-> site_origin, dest |-> <<>>,
               same |-> TRUE,
               known |-> FALSE, prior |-> NoVal, refail |-> FALSE,
               ok |-> FALSE, val |-> NoVal, osrm |-> 0, slept |-> slept,
               before |-> api_calls, after |-> after_calls])
        /\ UNCHANGED <<route_cache, session, n_osrm, memo, failed>>

\* a failed route to the access node leaving the highway columns empty
highway_fallback_nothing(rec, straight) == rec

\* get_highway_distance's "except:" branch: the straight-line distance of
\* the access node, no time, and the name "Highway Access"
highway_fallback(rec, straight) ==
    Set(Set(rec, "Nearest Highway Access", "Highway Access"),
        "Distance to Highway (km)", round1(straight))

\* "if include_highway:": the pacing check, get_highway_distance, api_calls += 1
HighwayStep ==
    /\ pc = "highway"
    /\ pc' = after("highway")
    /\ IF cfg.include_highway
       THEN \E raises \in pause_raises(cfg, api_calls) :
            IF raises
            THEN /\ Skipped
                 /\ out_rec' = out_rec
                 /\ log_rec' = log_error(log_rec, "Highway", None)
                 /\ trail' = Ended("Highway", "failed")
            ELSE \/ \* find_nearest_highway_access found nothing (or failed): (None, None, None)
                    /\ NoRoute("Highway", api_calls + 1)
                    /\ out_rec' = out_rec
                    /\ log_rec' = log_rec
                    /\ trail' = Ended("Highway", "none")
                 \/ \* an access node was found: route to it
                    LET dest == <<World.highway, Lon0>>
                        straight == haversine_km(slat, slon, World.highway, Lon0)
                    IN  \E r \in get_route(site_origin, dest, route_cache) :
                          /\ Attempt("Highway", None, dest, r, api_calls + 1)
                          /\ out_rec' =
                               IF r.ok
                               THEN Set(Set(Set(out_rec, "Nearest Highway Access", "Junction"),
                                            "Distance to Highway (km)", round1(r.val[1])),
                                        "Time to Highway (min)", round1(r.val[2]))
                               ELSE highway_fallback(out_rec, straight)
                          /\ log_rec' = log_rec
                          /\ trail' = Ended("Highway", IF r.ok THEN "ok" ELSE "failed")
       ELSE /\ trail' = Ended("Highway", "none")
            /\ UNCHANGED <<route_cache, session, sleeps, n_osrm, api_calls, attempts,
                           memo, failed, out_rec, log_rec>>
    /\ UNCHANGED <<cfg, i, cand, j, best, results, logs, prev, catch, look>>

\* "if include_ref:": the pacing check and the route to the reference location
RefStep ==
    /\ pc = "ref"
    /\ pc' = after("ref")
    /\ IF cfg.include_ref
       THEN LET dest == <<World.ref, Lon0>>
            IN  \E raises \in pause_raises(cfg, api_calls) : \E r \in routed(raises, dest) :
                  /\ IF raises THEN Skipped
                     ELSE Attempt("Reference", None, dest, r, calls_after(api_calls, r))
                  /\ out_rec' = IF r.ok
                                THEN Set(Set(out_rec, "Distance to Ref (km)", round1(r.val[1])),
                                         "Time to Ref (min)", round1(r.val[2]))
                                ELSE out_rec
                  /\ log_rec' = IF r.ok THEN log_rec
                                ELSE log_error(log_rec, "Reference", None)
                  /\ trail' = Ended("Reference", IF r.ok THEN "ok" ELSE "failed")
       ELSE /\ trail' = Ended("Reference", "none")
            /\ UNCHANGED <<route_cache, session, sleeps, n_osrm, api_calls, attempts,
                           memo, failed, out_rec, log_rec>>
    /\ UNCHANGED <<cfg, i, cand, j, best, results, logs, prev, catch, look>>

\* "if _HAS_CITIES_DB:": get_nearest_city, then the route to the city
CityStep ==
    /\ pc = "city"
    /\ pc' = after("city")
    /\ IF cfg.has_cities
       THEN \/ \* city_info is None
               /\ log_rec' = Append(log_rec, [kind |-> "msg", step |-> "No nearby city",
                                              who |-> None])
               /\ trail' = Ended("City", "none")
               /\ UNCHANGED <<route_cache, session, sleeps, n_osrm, api_calls, attempts,
                              memo, failed, out_rec>>
            \/ \* a city was found
               LET dest == <<World.city, Lon0>>
                   named == Set(Set(out_rec, "Nearest City (100k+)", "City"),
                                "City Population", World.city_pop)
               IN  \E raises \in pause_raises(cfg, api_calls) : \E r \in routed(raises, dest) :
                     /\ IF raises THEN Skipped
                        ELSE Attempt("City", None, dest, r, calls_after(api_calls, r))
                     /\ out_rec' = IF r.ok
                                   THEN Set(Set(named, "Distance to City (km)", round1(r.val[1])),
                                            "Time to City (min)", round1(r.val[2]))
                                   ELSE named
                     /\ log_rec' = IF r.ok
                                   THEN Append(log_rec, [kind |-> "msg", step |-> "Nearest city",
                                                         who |-> None])
                                   ELSE log_error(log_rec, "City", None)
                     /\ trail' = Ended("City", IF r.ok THEN "ok" ELSE "failed")
       ELSE /\ trail' = Ended("City", "none")
            /\ UNCHANGED <<route_cache, session, sleeps, n_osrm, api_calls, attempts,
                           memo, failed, out_rec, log_rec>>
    /\ UNCHANGED <<cfg, i, cand, j, best, results, logs, prev, catch, look>>

\* one NUTS lookup and the two assignments under "if n2:" / "if n3:"; the
\* lookup returns {} when its dataset is not loaded
nuts_fields(rec, found, code, name) ==
    IF found THEN Set(Set(rec, code, "PL911"), name, "Region") ELSE rec

\* "if _HAS_SHAPELY:": nuts2_lookup and nuts3_lookup
NutsStep ==
    /\ pc = "nuts"
    /\ pc' = after("nuts")
    /\ IF cfg.has_shapely
       THEN \E n2, n3 \in BOOLEAN :
              /\ out_rec' = nuts_fields(nuts_fields(out_rec, n2, "NUTS2 Code", "NUTS2 Name"),
                                        n3, "NUTS3 Code", "NUTS3 Name")
              /\ trail' = Ended("NUTS", IF n2 /\ n3 THEN "ok" ELSE "failed")
       ELSE /\ trail' = Ended("NUTS", "none")
            /\ out_rec' = out_rec
    /\ UNCHANGED <<session, cfg, route_cache, i, cand, j, best, api_calls, log_rec,
                   results, logs, sleeps, n_osrm, attempts, memo, failed, prev, catch, look>>

\* 'if catchment["total_population"] > 0:' and the five assignments under it
catchment_fields(rec, catchment) ==
    IF catchment.total_population > 0
    THEN [rec EXCEPT
            !["Catchment Population (50km)"] = catchment.total_population,
            !["Catchment Unemployed (50km)"] = catchment.unemployed_persons,
            !["Catchment Active Pop (50km)"] = catchment.active_population,
            !["Catchment Employed (50km)"] = catchment.employed_persons,
            !["Catchment NUTS3 Regions"] =
                SubSeq(catchment.nuts3_regions, 1, Min(3, Len(catchment.nuts3_regions)))]
    ELSE rec

\* "if include_catchment:": calculate_catchment_area and the catchment fields
CatchmentStep ==
    /\ pc = "catchment"
    /\ pc' = after("catchment")
    /\ IF cfg.include_catchment
       THEN \E call \in SiteCatchmentCalls :
              /\ out_rec' = catchment_fields(out_rec, call.out)
              /\ trail' = Ended("Catchment", IF call.in.ok THEN "ok" ELSE "failed")
       ELSE /\ trail' = Ended("Catchment", "none")
            /\ out_rec' = out_rec
    /\ UNCHANGED <<session, cfg, route_cache, i, cand, j, best, api_calls, log_rec,
                   results, logs, sleeps, n_osrm, attempts, memo, failed, prev, catch, look>>

\* the official lookups: name and code of every level whose index finds the site
official_fields(rec, found) ==
    LET w == IF "woj" \in found
             THEN Set(Set(rec, "Voivodeship", "Woj"), "Voivodeship Code", "14") ELSE rec
        p == IF "powiat" \in found
             THEN Set(Set(w, "County", "Powiat"), "County Code", "1465") ELSE w
    IN  IF "gmina" \in found
        THEN Set(Set(p, "Municipality", "Gmina"), "Municipality Code", "146501") ELSE p

\* osm_reverse answers with names and without codes, or (the request failing)
\* with "" everywhere: 'adm.get(x) or out_rec.get(x)' for the six fields
osm_fields(rec, answered) ==
    IF answered
    THEN Set(Set(Set(rec, "Municipality", "Town"), "County", "District"),
             "Voivodeship", "State")
    ELSE rec

\* the admin boundaries: the official indexes, then "if enrich_osm_admin and
\* not have_official:" the reverse geocoder
AdminStep ==
    /\ pc = "admin"
    /\ pc' = after("admin")
    /\ \E found \in SUBSET cfg.official :
         IF cfg.enrich_osm_admin /\ found = {}
         THEN \E answered \in BOOLEAN :
                /\ out_rec' = osm_fields(out_rec, answered)
                /\ trail' = Ended("Admin", IF answered THEN "ok" ELSE "failed")
         ELSE /\ out_rec' = official_fields(out_rec, found)
              /\ trail' = Ended("Admin", IF found # {} THEN "ok" ELSE "none")
    /\ UNCHANGED <<session, cfg, route_cache, i, cand, j, best, api_calls, log_rec,
                   results, logs, sleeps, n_osrm, attempts, memo, failed, prev, catch, look>>

\* the record of a site appended only when its log holds no error
FinishSite_on_success ==
    /\ pc = "finish"
    /\ logs' = Append(logs, [site |-> i, steps |-> log_rec])
    /\ results' = IF \E n \in DOMAIN log_rec : log_rec[n].kind \in {"error", "fatal"}
                  THEN results ELSE Append(results, out_rec)
    /\ i' = i + 1
    /\ pc' = IF i < Len(cfg.sites) THEN "site" ELSE "return"
    /\ UNCHANGED <<session, cfg, route_cache, cand, j, best, api_calls, out_rec, log_rec,
                   sleeps, n_osrm, attempts, memo, failed, trail, prev, catch, look>>

\* logs.append(log_rec); results.append(out_rec); the progress notification;
\* next site.  The notification is outside every try block: an observer that
\* raises ends process_batch, whose lists and cache are then lost to the caller.
FinishSite ==
    /\ pc = "finish"
    /\ \E raises \in hook_raises(cfg) :
         IF raises
         THEN /\ pc' = "raised"
              /\ logs' = <<>>
              /\ results' = <<>>
              /\ route_cache' = EmptyDict
              /\ UNCHANGED i
         ELSE /\ logs' = Append(logs, [site |-> i, steps |-> log_rec])
              /\ results' = Append(results, out_rec)
              /\ i' = i + 1
              /\ pc' = IF i < Len(cfg.sites) THEN "site" ELSE "return"
              /\ UNCHANGED route_cache
    /\ UNCHANGED <<session, cfg, cand, j, best, api_calls, out_rec, log_rec,
                   sleeps, n_osrm, attempts, memo, failed, trail, prev, catch, look>>

\* the return that leaves an empty cache in the session
Return_drops_cache ==
    /\ pc = "return"
    /\ session' = [has |-> TRUE, route_cache |-> EmptyDict]
    /\ route_cache' = EmptyDict
    /\ pc' = "done"
    /\ UNCHANGED <<cfg, i, cand, j, best, api_calls, out_rec, log_rec, results, logs,
                   sleeps, n_osrm, attempts, memo, failed, trail, prev, catch, look>>

\* st.session_state["route_cache"] = route_cache; return df_res, logs, api_calls
Return ==
    /\ pc = "return"
    /\ session' = [has |-> TRUE, route_cache |-> route_cache]
    /\ route_cache' = EmptyDict
    /\ pc' = "done"
    /\ UNCHANGED <<cfg, i, cand, j, best, api_calls, out_rec, log_rec, results, logs,
                   sleeps, n_osrm, attempts, memo, failed, trail, prev, catch, look>>

\* the script run that called process_batch ends; the next one starts afresh
Rerun ==
    /\ pc \in {"done", "raised"}
    /\ pc' = "idle"
    /\ cfg' = NoCfg
    /\ i' = 0
    /\ cand' = <<>>
    /\ j' = 0
    /\ best' = NoBest
    /\ api_calls' = 0
    /\ out_rec' = <<>>
    /\ log_rec' = <<>>
    /\ results' = <<>>
    /\ logs' = <<>>
    /\ sleeps' = 0
    /\ n_osrm' = 0
    /\ attempts' = <<>>
    /\ failed' = {}
    /\ trail' = <<>>
    /\ UNCHANGED <<session, route_cache, memo, prev, catch, look>>

\* the sidebar's "Clear Route Cache" button: a new, empty dict
ClearRouteCache ==
    /\ pc = "idle"
    /\ session' = [has |-> TRUE, route_cache |-> EmptyDict]
    /\ memo' = EmptyDict
    /\ failed' = {}
    /\ UNCHANGED <<pc, cfg, route_cache, i, cand, j, best, api_calls, out_rec, log_rec,
                   results, logs, sleeps, n_osrm, attempts, trail, prev, catch, look>>

Next ==
    \/ StartRun
    \/ BeginSite
    \/ AirportAttempt
    \/ AirportDone
    \/ SeaportAttempt
    \/ SeaportDone
    \/ HighwayStep
    \/ RefStep
    \/ CityStep
    \/ NutsStep
    \/ CatchmentStep
    \/ AdminStep
    \/ FinishSite
    \/ Return
    \/ Rerun
    \/ ClearRouteCache

Spec == Init /\ [][Next]_vars

-----------------------------------------------------------------------------
(* One run with every feature, from a session that holds the cache an     *)
(* earlier run left                                                        *)

\* the pair of that run: a site that is not in the batches of this one, and
\* the reference location
WarmPair == <<<<9, Lon0>>, <<World.ref, Lon0>>>>
WarmVal == CHOOSE v \in RouteVals : TRUE

InitBatch ==
    /\ Idle
    /\ catch = NoCatch
    /\ look = NoLook
    /\ session = [has |-> TRUE,
                  route_cache |-> Put(EmptyDict, _route_key(WarmPair[1], WarmPair[2]),
                                      WarmVal)]
    /\ memo = Put(EmptyDict, RoundedPair(WarmPair[1], WarmPair[2]), WarmVal)

\* the Calculate button
StartBatch ==
    /\ pc = "idle"
    /\ \E c \in BatchSettings : process_batch(c)
    /\ UNCHANGED prev

NextBatch ==
    \/ StartBatch
    \/ BeginSite
    \/ AirportAttempt
    \/ AirportDone
    \/ SeaportAttempt
    \/ SeaportDone
    \/ HighwayStep
    \/ RefStep
    \/ CityStep
    \/ NutsStep
    \/ CatchmentStep
    \/ AdminStep
    \/ FinishSite
    \/ Return

SpecBatch == InitBatch /\ [][NextBatch]_vars

-----------------------------------------------------------------------------
(* The same batch run twice, the cache kept in between *)

\* the first press of the Calculate button
StartFirst ==
    /\ pc = "idle"
    /\ prev.run = 0
    /\ \E c \in Settings : process_batch(c)
    /\ prev' = [prev EXCEPT !.run = 1]

\* the second press, with the same files and settings
StartAgain ==
    /\ pc = "done"
    /\ prev.run = 1
    /\ process_batch(cfg)
    /\ prev' = [run |-> 2, results |-> results,
                seen |-> {attempts[n].key : n \in {m \in DOMAIN attempts : attempts[m].routed}},
                memo |-> memo]

NextTwice ==
    \/ StartFirst
    \/ BeginSite
    \/ AirportAttempt
    \/ AirportDone
    \/ SeaportAttempt
    \/ SeaportDone
    \/ HighwayStep
    \/ RefStep
    \/ CityStep
    \/ NutsStep
    \/ CatchmentStep
    \/ AdminStep
    \/ FinishSite
    \/ Return
    \/ StartAgain

SpecTwice == Init /\ [][NextTwice]_vars

-----------------------------------------------------------------------------
(* Calls of calculate_catchment_area *)

\* the NUTS_ID of the k-th loaded region, and the distances its centroid may
\* have from the site (km)
Codes == <<"PL911", "PL912", "PL913">>
Dists == {0, 5, 10, 60}

\* what the statistics provider holds: population (persons), unemployed and
\* active population (thousand persons)
PopRows == [c \in {"PL911", "PL912", "PL913"} |->
               CASE c = "PL911" -> 100000 [] c = "PL912" -> 50000 [] OTHER -> 83333]
UnemployedRows == [c \in {"PL911", "PL912", "PL913"} |->
               CASE c = "PL911" -> 5 [] c = "PL912" -> 2 [] OTHER -> 3]
ActiveRows == [c \in {"PL911", "PL912", "PL913"} |->
               CASE c = "PL911" -> 48 [] c = "PL912" -> 30 [] OTHER -> 40]

Only(rows, codes) == [c \in DOMAIN rows \cap codes |-> rows[c]]
Down == [kind |-> "down", rows |-> EmptyDict]
Data(rows) == [kind |-> "data", rows |-> rows]

\* the answers for the year and for the year before: all there, there for the
\* year before only, the request failing, a value that is no number, values
\* for some regions only
Answers(rows) ==
    {<<Data(rows), Down>>, <<Down, Data(rows)>>, <<Down, Down>>,
     <<[kind |-> "bad", rows |-> rows], Down>>,
     <<Data(Only(rows, {Codes[1]})), Down>>,
     <<Data(Only(rows, DOMAIN rows \ {Codes[1]})), Down>>}

\* the loaded regions: up to MaxRegions, the first maybe without a NUTS_ID
Layouts ==
    UNION {{[k \in 1..n |-> [id |-> IF k = 1 /\ anon THEN "" ELSE Codes[k], d |-> l[k]]] :
               l \in [1..n -> Dists], anon \in BOOLEAN} : n \in 0..MaxRegions}

CatchInputs ==
    [ok : {TRUE}, regions : Layouts, here : {"", Codes[1], Raised},
     pop : Answers(PopRows), unemployed : Answers(UnemployedRows),
     active : Answers(ActiveRows)]
    \cup {[ok |-> FALSE, regions |-> <<>>, here |-> "", pop |-> NoAnswer,
           unemployed |-> NoAnswer, active |-> NoAnswer]}

InitCatchment ==
    /\ Idle
    /\ session = [has |-> FALSE, route_cache |-> EmptyDict]
    /\ memo = EmptyDict
    /\ catch \in {[called |-> FALSE, in |-> x, out |-> <<>>] : x \in CatchInputs}
    /\ look = NoLook

\* calculate_catchment_area(slat, slon, radius_km, year) with its defaults
Calculate ==
    /\ ~catch.called
    /\ catch' = [called |-> TRUE, in |-> catch.in,
                 out |-> calculate_catchment_area(catch.in, DefaultRadius, DefaultYear)]
    /\ UNCHANGED <<pc, session, cfg, route_cache, i, cand, j, best, api_calls, out_rec,
                   log_rec, results, logs, sleeps, n_osrm, attempts, memo, failed, trail,
                   prev, look>>

NextCatchment == Calculate

SpecCatchment == InitCatchment /\ [][NextCatchment]_vars

-----------------------------------------------------------------------------
(* Lookups in a region dataset *)

\* the datasets _load_nuts_index / AdminIndex may hold: one that failed to
\* load (no geometry and no tree), or up to MaxGeoms geometries with any
\* order of the tree; and any library
Datasets ==
    {[ok |-> FALSE, geoms |-> <<>>, order |-> <<>>, lib |-> l] : l \in Libraries}
    \cup UNION {[ok : {TRUE}, geoms : [1..n -> Geometries],
                 order : {f \in [1..n -> 1..n] : \A a, b \in 1..n : a # b => f[a] # f[b]},
                 lib : Libraries] : n \in 1..MaxGeoms}

InitLookup ==
    /\ Idle
    /\ session = [has |-> FALSE, route_cache |-> EmptyDict]
    /\ memo = EmptyDict
    /\ catch = NoCatch
    /\ look \in {[called |-> FALSE, in |-> x, out |-> <<>>] :
                   x \in [kind : {"nuts", "admin"}, idx : Datasets, pt : Points]}

\* nuts2_lookup / nuts3_lookup / idx.lookup for a site
Lookup ==
    /\ ~look.called
    /\ look' = [called |-> TRUE, in |-> look.in,
                out |-> IF look.in.kind = "nuts"
                        THEN _nuts_lookup_generic(look.in.idx, look.in.pt)
                        ELSE AdminIndex_lookup(look.in.idx, look.in.pt)]
    /\ UNCHANGED <<pc, session, cfg, route_cache, i, cand, j, best, api_calls, out_rec,
                   log_rec, results, logs, sleeps, n_osrm, attempts, memo, failed, trail,
                   prev, catch>>

SpecLookup == InitLookup /\ [][Lookup]_vars


-----------------------------------------------------------------------------
(* Runs with a progress observer *)

\* runs of the distance steps with or without an observer, a pause due
\* before every call after the first
ObservedSettings ==
    {c \in [sites : Batches, airports : {Airports}, seaports : {Seaports, <<>>},
            lons : {Meridian}, topn : {1}, pause_every : {0, 1},
            include_highway : BOOLEAN, include_ref : BOOLEAN, has_cities : BOOLEAN,
            has_shapely : {FALSE}, include_catchment : {FALSE},
            enrich_osm_admin : {FALSE}, official : {{}},
            air_named : BOOLEAN, sea_named : {TRUE},
            progress_hook : {"none", "attached"}] : Work(c) <= MaxWork}

\* the Calculate button
StartObserved ==
    /\ pc = "idle"
    /\ \E c \in ObservedSettings : process_batch(c)
    /\ UNCHANGED prev

NextObserved ==
    \/ StartObserved
    \/ BeginSite
    \/ AirportAttempt
    \/ AirportDone
    \/ SeaportAttempt
    \/ SeaportDone
    \/ HighwayStep
    \/ RefStep
    \/ CityStep
    \/ NutsStep
    \/ CatchmentStep
    \/ AdminStep
    \/ FinishSite
    \/ Return

SpecObserved == Init /\ [][NextObserved]_vars
-----------------------------------------------------------------------------
(* Properties *)

Range(q) == {q[n] : n \in 1..Len(q)}

\* the attempts (as indices of the history) of one step of one site
Atts(s, step) == {n \in 1..Len(attempts) : attempts[n].site = s /\ attempts[n].step = step}

\* the sites whose record has been appended to results
Finished == 1..Len(results)

Calls == {n \in 1..Len(attempts) : attempts[n].routed}

IsNone(rec, cols) == \A c \in cols : rec[c] = None
IsSet(rec, cols) == \A c \in cols : rec[c] # None

AirportCols == {"Nearest Airport", "Distance to Airport (km)", "Time to Airport (min)"}
SeaportCols == {"Nearest Seaport", "Distance to Seaport (km)", "Time to Seaport (min)"}

\* C1: on one cache dict, a get_route request for a coordinate pair none of
\* whose earlier requests (to the micro-degree) succeeded, and which succeeds,
\* makes exactly one route_via_osrm call; every request for a pair to which an
\* earlier request succeeded makes none and returns what was stored then.
C1_Memoized ==
    \A n \in Calls :
        LET a == attempts[n]
        IN  /\ (~a.known /\ a.ok) => a.osrm = 1
            /\ a.known => (a.osrm = 0 /\ a.ok /\ a.val = a.prior)

\* a request served from the cache whose coordinates differ from those of the
\* request that stored the entry
C1_Witness ==
    \E m, n \in Calls :
        /\ m < n
        /\ attempts[m].ok /\ attempts[m].osrm = 1
        /\ attempts[n].key = attempts[m].key
        /\ <<attempts[n].origin, attempts[n].dest>> # <<attempts[m].origin, attempts[m].dest>>
        /\ attempts[n].osrm = 0 /\ attempts[n].val = attempts[m].val

\* C2: a get_route request whose route_via_osrm call fails leaves the cache
\* dict as it was, and a request for a pair whose latest request failed calls
\* route_via_osrm again.
C2_FailureNotCached ==
    \A n \in Calls :
        LET a == attempts[n]
        IN  /\ ~a.ok => (a.same /\ a.osrm = 1)
            /\ a.refail => a.osrm = 1

\* a pair whose request failed is requested again, and the provider is called
C2_Witness ==
    \E n \in Calls : attempts[n].refail /\ attempts[n].osrm = 1 /\ attempts[n].ok

\* the cache in effect: the local dict of a run, the session's between runs
EffCache == IF pc \in {"idle", "done"} THEN session.route_cache ELSE route_cache

\* C3: every step other than the clear button (the only step from idle to
\* idle) keeps every key of the cache with its value: within a run, when a
\* run stores the cache back, and when the next run fetches it.
C3_CacheOnlyGrows ==
    [][ \/ \A k \in DOMAIN EffCache :
              k \in DOMAIN EffCache' /\ EffCache'[k] = EffCache[k]
        \/ (pc = "idle" /\ pc' = "idle") ]_vars

\* a run starts with the entries an earlier run wrote
C3_Witness == pc = "site" /\ i = 1 /\ attempts = <<>> /\ DOMAIN route_cache # {}

\* C4: for a finished site, with K = topn no more than the number M of
\* candidates, exactly K get_route calls were made for airports and exactly K
\* for seaports; while a loop runs the number never exceeds K.
C4_ExactlyK ==
    /\ \A s \in Finished :
          /\ cfg.topn <= Len(cfg.airports) => Cardinality(Atts(s, "Airport")) = cfg.topn
          /\ cfg.topn <= Len(cfg.seaports) => Cardinality(Atts(s, "Seaport")) = cfg.topn
    /\ \A s \in 1..Len(cfg.sites) :
          /\ Cardinality(Atts(s, "Airport")) <= cfg.topn
          /\ Cardinality(Atts(s, "Seaport")) <= cfg.topn

\* a finished site with 0 < K < M
C4_Witness ==
    /\ Len(results) >= 1
    /\ cfg.topn > 0
    /\ cfg.topn < Len(cfg.airports)
    /\ Cardinality(Atts(1, "Airport")) = cfg.topn

\* the order a stable sort gives: ties by original position
stable_argsort(dists) ==
    LET n == Len(dists)
    IN  CHOOSE p \in argsort(dists) :
            \A a, b \in 1..n :
                (a < b /\ dists[p[a]] = dists[p[b]]) => p[a] < p[b]

\* the K candidates nearest by great-circle distance, ties by original order
StableTopK(lat, lats, k) ==
    LET dists == [x \in 1..Len(lats) |-> haversine_km(lat, Lon0, lats[x], Lon0)]
    IN  {stable_argsort(dists)[x] : x \in 1..Min(k, Len(lats))}

\* C5: for a finished site, the candidates get_route was called for are
\* exactly the K nearest by great-circle distance, equal distances taken in
\* original candidate order.
C5_StableTopK ==
    \A s \in Finished :
        /\ {attempts[n].f : n \in Atts(s, "Airport")}
              = StableTopK(cfg.sites[s], cfg.airports, cfg.topn)
        /\ {attempts[n].f : n \in Atts(s, "Seaport")}
              = StableTopK(cfg.sites[s], cfg.seaports, cfg.topn)

\* the successful attempts of one step of a site, and the least distance
Succ(s, step) == {n \in Atts(s, step) : attempts[n].ok}
Least(s, step) ==
    CHOOSE d \in {attempts[n].val[1] : n \in Succ(s, step)} :
        \A n \in Succ(s, step) : d <= attempts[n].val[1]

Chosen(s, step, name, dist, time) ==
    /\ \A n \in Atts(s, step) \ Succ(s, step) :
          [kind |-> "error", step |-> step, who |-> attempts[n].f] \in Range(logs[s].steps)
    /\ Succ(s, step) # {} =>
          \E n \in Succ(s, step) :
              /\ attempts[n].val[1] = Least(s, step)
              /\ results[s][name] = attempts[n].f
              /\ results[s][dist] = round1(attempts[n].val[1])
              /\ results[s][time] = round1(attempts[n].val[2])

\* C6: in a finished site's record the airport (seaport) is a candidate whose
\* get_route call succeeded with the least distance of all that succeeded,
\* with that call's distance and time; every failed candidate has an error
\* entry in the site's log, and all K candidates were attempted all the same.
C6_MinimumOfSuccesses ==
    \A s \in Finished :
        /\ Chosen(s, "Airport", "Nearest Airport", "Distance to Airport (km)",
                  "Time to Airport (min)")
        /\ Chosen(s, "Seaport", "Nearest Seaport", "Distance to Seaport (km)",
                  "Time to Seaport (min)")
        /\ Cardinality(Atts(s, "Airport")) = Min(cfg.topn, Len(cfg.airports))
        /\ Cardinality(Atts(s, "Seaport")) = Min(cfg.topn, Len(cfg.seaports))

\* a finished site whose first airport failed, whose second succeeded and is
\* the one reported
C6_Witness ==
    /\ Len(results) >= 1
    /\ \E m, n \in Atts(1, "Airport") :
          /\ m < n
          /\ ~attempts[m].ok
          /\ attempts[n].ok
          /\ results[1]["Nearest Airport"] = attempts[n].f

\* C7: in a finished site's record the airport (seaport) fields are missing
\* when no candidate was left to try or every get_route call failed; with
\* topn = 0 no get_route call is made for a facility; with topn at least the
\* number of candidates every candidate is tried.
C7_NoneWhenNothingSucceeds ==
    \A s \in Finished :
        /\ Succ(s, "Airport") = {} => IsNone(results[s], AirportCols)
        /\ Succ(s, "Seaport") = {} => IsNone(results[s], SeaportCols)
        /\ cfg.airports = <<>> => IsNone(results[s], AirportCols)
        /\ cfg.topn = 0 =>
              /\ Atts(s, "Airport") = {} /\ Atts(s, "Seaport") = {}
              /\ IsNone(results[s], AirportCols \cup SeaportCols)
        /\ cfg.topn >= Len(cfg.airports) =>
              {attempts[n].f : n \in Atts(s, "Airport")} = 1..Len(cfg.airports)
        /\ cfg.topn >= Len(cfg.seaports) =>
              {attempts[n].f : n \in Atts(s, "Seaport")} = 1..Len(cfg.seaports)

\* a finished site both of whose seaports (all there are) were tried and failed
C7_Witness ==
    /\ Len(results) >= 1
    /\ cfg.topn >= Len(cfg.seaports)
    /\ Cardinality(Atts(1, "Seaport")) = Len(cfg.seaports)
    /\ Succ(1, "Seaport") = {}
    /\ IsNone(results[1], SeaportCols)

\* C8: in a finished site's record, when every one of the K > 0 airport
\* calls failed the airport fields are missing, while the seaport fields are
\* set if a seaport call succeeded (and the reference and city distances if
\* theirs did).
C8_IndependentFields ==
    \A s \in Finished :
        (Atts(s, "Airport") # {} /\ Succ(s, "Airport") = {}) =>
            /\ IsNone(results[s], AirportCols)
            /\ Succ(s, "Seaport") # {} => IsSet(results[s], SeaportCols)
            /\ Succ(s, "Reference") # {} =>
                  IsSet(results[s], {"Distance to Ref (km)", "Time to Ref (min)"})
            /\ Succ(s, "City") # {} =>
                  IsSet(results[s], {"Distance to City (km)", "Time to City (min)"})

\* every airport call of a finished site failed and its seaport is set
C8_Witness ==
    /\ Len(results) >= 1
    /\ Atts(1, "Airport") # {}
    /\ Succ(1, "Airport") = {}
    /\ IsNone(results[1], AirportCols)
    /\ IsSet(results[1], SeaportCols)

\* C9: every exact-distance attempt, successful or failed, adds exactly one
\* to api_calls.
C9_CountsEveryAttempt ==
    \A n \in Calls : attempts[n].after = attempts[n].before + 1

\* C10: the pipeline sleeps before an exact-distance step exactly when
\* api_calls is then a positive multiple of pause_every > 0, and at no other
\* time; with pause_every = 0 it never sleeps.
C10_Pacing ==
    /\ \A n \in 1..Len(attempts) :
          LET a == attempts[n]
          IN  a.slept <=> (cfg.pause_every > 0 /\ a.before > 0
                           /\ \E m \in 1..a.before : a.before = m * cfg.pause_every)
    /\ sleeps = Cardinality({n \in 1..Len(attempts) : attempts[n].slept})
    /\ cfg.pause_every = 0 => sleeps = 0

\* with pause_every = 2: a call made at api_calls = 1 without a pause, then
\* a call made at api_calls = 2 after one
C10_Witness ==
    /\ cfg.pause_every = 2
    /\ \E m, n \in Calls :
          /\ attempts[m].before = 1 /\ ~attempts[m].slept
          /\ attempts[n].before = 2 /\ attempts[n].slept
    /\ sleeps >= 1


-----------------------------------------------------------------------------
(* The same batch twice (SpecTwice) *)

\* the second run of the batch has returned
SecondDone == prev.run = 2 /\ pc = "done"

\* the attempts of the running (or finished) second run for a pair that the
\* first run left in the cache
Warm == {n \in Calls : prev.run = 2 /\ attempts[n].key \in DOMAIN prev.memo}

\* C11 as stated: after the second run of the same batch the reference
\* distance and duration of every site are those of the first run, and no
\* attempt for a coordinate pair the first run had seen called the provider.
C11_Idempotent ==
    SecondDone =>
        /\ \A s \in 1..Len(results) : \A c \in RefCols \cap DOMAIN results[s] :
               results[s][c] = prev.results[s][c]
        /\ \A n \in Calls : attempts[n].key \in prev.seen => attempts[n].osrm = 0

\* C11 amended: in the second run every attempt for a pair whose route the
\* first run obtained is answered from the cache, without a provider call and
\* with the first run's distance and duration, and a site's reference columns
\* that the first run filled hold the same numbers again.
C11_IdempotentOnSuccesses ==
    /\ \A n \in Warm :
          /\ attempts[n].osrm = 0
          /\ attempts[n].ok
          /\ attempts[n].val = prev.memo[attempts[n].key]
    /\ prev.run = 2 =>
          \A s \in 1..Len(results) : \A c \in RefCols \cap DOMAIN results[s] :
              prev.results[s][c] # None => results[s][c] = prev.results[s][c]

\* a second run finished without any provider call, its reference route taken
\* from the cache
C11_Witness ==
    /\ SecondDone
    /\ n_osrm = 0
    /\ \E n \in Warm : attempts[n].step = "Reference"
    /\ Len(results) = 2
    /\ \A s \in 1..2 : \A c \in RefCols :
           results[s][c] # None /\ results[s][c] = prev.results[s][c]

-----------------------------------------------------------------------------
(* One run with every feature (SpecBatch) *)

Returned == pc \in {"return", "done"}

\* the steps of site s that have ended, in the order they ended
SiteTrail(s) == SelectSeq(trail, LAMBDA e : e.site = s)
Steps(q) == [n \in DOMAIN q |-> q[n].step]
Outs(q) == {q[n].out : n \in DOMAIN q}

\* the entries of a log record that report a failure
Errors(log) == {n \in DOMAIN log.steps : log.steps[n].kind \in {"error", "fatal"}}

\* C12: during a run there is one result record and one log record per site
\* dealt with so far, in the order of the sites; the record and the log at
\* position k are those of row k of the sites frame, and a returned run has
\* one of each per row whatever failed.
C12_OnePerSite ==
    /\ Len(results) = Len(logs)
    /\ pc \in {"site", "airport", "seaport", "highway", "ref", "city", "nuts",
               "catchment", "admin", "finish"} => Len(results) = i - 1
    /\ Returned => Len(results) = Len(cfg.sites)
    /\ \A k \in 1..Len(results) :
          /\ results[k]["Site Name"] = k
          /\ results[k]["Latitude"] = Fmt6(cfg.sites[k])
          /\ logs[k].site = k

\* a returned run over two sites: the first met an exception outside the step
\* handlers, a step of the second failed
C12_Witness ==
    /\ pc = "done"
    /\ Len(cfg.sites) = 2
    /\ Len(results) = 2
    /\ \E n \in Errors(logs[1]) : logs[1].steps[n].kind = "fatal"
    /\ \E n \in Errors(logs[2]) : logs[2].steps[n].kind = "error"

\* the order the claim states: the administrative and NUTS lookups, then
\* airport, seaport, highway, reference, city, catchment
StatedRank(step) ==
    CASE step \in {"NUTS", "Admin"} -> 0
      [] step = "Airport" -> 1
      [] step = "Seaport" -> 2
      [] step = "Highway" -> 3
      [] step = "Reference" -> 4
      [] step = "City" -> 5
      [] step = "Catchment" -> 6

\* the steps that did something: those not switched off
Ran == {n \in DOMAIN trail : trail[n].out # "none"}

StepOrder ==
    <<"Airport", "Seaport", "Highway", "Reference", "City", "NUTS", "Catchment", "Admin">>

LastStep(s) == SiteTrail(s)[Len(SiteTrail(s))]

\* C14: a step that fails is followed by the next step of its site; an
\* exception outside the step handlers ends the site's steps only: its log
\* has the fatal entry, its record is appended with the airport fields an
\* earlier successful airport step wrote, and every other site of the run
\* has its steps from the first one on and its record.
C14_FailureIsolated ==
    /\ \A s \in 1..Len(results) :
          /\ SiteTrail(s) # <<>>
          /\ SiteTrail(s)[1].step = StepOrder[1]
          /\ \A n \in DOMAIN SiteTrail(s) :
                /\ SiteTrail(s)[n].out = "failed" /\ n < Len(StepOrder)
                       => /\ n < Len(SiteTrail(s))
                          /\ SiteTrail(s)[n + 1].step = StepOrder[n + 1]
                /\ SiteTrail(s)[n].out = "fatal"
                       => /\ n = Len(SiteTrail(s))
                          /\ \E e \in Errors(logs[s]) : logs[s].steps[e].kind = "fatal"
                /\ SiteTrail(s)[n].step = "Airport" /\ SiteTrail(s)[n].out = "ok"
                       => IsSet(results[s], AirportCols)
    /\ Returned => Len(results) = Len(cfg.sites)

\* a returned run whose first site was cut short in the seaport step after
\* its airport was found, and whose second site lost a step and went on
C14_Witness ==
    /\ pc = "done"
    /\ Len(results) = 2
    /\ LastStep(1).step = "Seaport" /\ LastStep(1).out = "fatal"
    /\ IsSet(results[1], AirportCols)
    /\ "failed" \in Outs(SiteTrail(2))
    /\ Len(SiteTrail(2)) = Len(StepOrder)

\* the log of site s reports a failure of the step
Logged(s, step) == \E e \in Errors(logs[s]) : logs[s].steps[e].step = step

\* C15 as stated: whenever a step of a site failed, the site's log holds an
\* entry for the failure of that step.
C15_EveryGapLogged ==
    \A s \in 1..Len(results) : \A n \in DOMAIN SiteTrail(s) :
        SiteTrail(s)[n].out \in {"failed", "fatal"} => Logged(s, SiteTrail(s)[n].step)

HighwayCols == {"Nearest Highway Access", "Distance to Highway (km)", "Time to Highway (min)"}

\* C16 as stated: the records of a run have the same columns, those of the
\* highway, the reference location and the catchment there exactly when the
\* feature is switched on.
C16_ColumnsFollowFlags ==
    \A k \in 1..Len(results) :
        /\ DOMAIN results[k] = DOMAIN results[1]
        /\ HighwayCols \subseteq DOMAIN results[k] <=> cfg.include_highway
        /\ RefCols \subseteq DOMAIN results[k] <=> cfg.include_ref
        /\ CatchmentCols \subseteq DOMAIN results[k] <=> cfg.include_catchment

\* a coordinate that is no number or out of range, in a frame of c
BadLat(x) == x = NaN \/ x < -90 * Deg \/ x > 90 * Deg
BadLon(x) == x = NaN \/ x < -180 * Deg \/ x > 180 * Deg
BadCoord(c) ==
    \E f \in {"sites", "airports", "seaports"} :
        /\ c[f] # <<>>
        /\ BadLon(c.lons[f]) \/ \E k \in DOMAIN c[f] : BadLat(c[f][k])

\* C17: a run started with a bad coordinate in any of its three frames ends
\* at once with the validation error: the session's cache is what it was, no
\* provider call is made and there is no record, no log and no attempt.
C17_ValidationFirst ==
    [][pc = "idle" /\ pc' # "idle" /\ BadCoord(cfg')
          => /\ pc' = "raised"
             /\ session' = session
             /\ route_cache' = EmptyDict
             /\ results' = <<>> /\ logs' = <<>> /\ attempts' = <<>>
             /\ n_osrm' = 0 /\ api_calls' = 0]_vars

\* a run rejected for an airport latitude out of range, the session holding
\* a cache
C17_Witness ==
    /\ pc = "raised"
    /\ session.has /\ DOMAIN session.route_cache # {}
    /\ \A k \in DOMAIN cfg.sites : ~BadLat(cfg.sites[k])
    /\ \E k \in DOMAIN cfg.airports : cfg.airports[k] = 90 * Deg + 1

-----------------------------------------------------------------------------
(* calculate_catchment_area (SpecCatchment) *)

\* both requests for an indicator failed
FetchFailed(answers) == answers[1].kind = "down" /\ answers[2].kind = "down"

\* a value returned for one of the codes is no number
Unconvertible(answers, codes) ==
    \/ answers[1].kind = "bad" /\ DOMAIN answers[1].rows \cap codes # {}
    \/ /\ answers[1].kind = "down" \/ DOMAIN answers[1].rows \cap codes = {}
       /\ answers[2].kind = "bad" /\ DOMAIN answers[2].rows \cap codes # {}

AllZero(out) ==
    /\ out.total_population = 0
    /\ out.unemployed_persons = 0
    /\ out.active_population = 0
    /\ out.employed_persons = 0

\* the regions calculate_catchment_area selects for input x
Selected(x) == nearby_nuts3(x, DefaultRadius).regions

\* the codes of the regions selected for input x
SelectedCodes(x) == {Selected(x)[k].id : k \in DOMAIN Selected(x)}

\* C18 as stated: a call during which the dataset is not loaded, or a
\* request for statistics fails, or a value cannot be converted, returns all
\* four numbers zero and no region.
C18_FailureIsAllZero ==
    catch.called =>
        LET x == catch.in
        IN  \/ ~x.ok
            \/ /\ Selected(x) # <<>>
               /\ \E a \in {x.pop, x.unemployed, x.active} :
                      FetchFailed(a) \/ Unconvertible(a, SelectedCodes(x))
            => AllZero(catch.out) /\ catch.out.nuts3_regions = <<>>

\* the rows an answer holds for the codes asked for
RowsFor(answer, codes) ==
    IF answer.kind = "down" THEN {} ELSE DOMAIN answer.rows \cap codes

\* the value the provider returns for a region when asked for codes: that of
\* the year, or when the year has no row for any of them that of the year
\* before; None when there is none
Raw(answers, codes, code) ==
    LET from == IF RowsFor(answers[1], codes) # {} THEN 1 ELSE 2
    IN  IF code \in RowsFor(answers[from], codes) THEN answers[from].rows[code] ELSE None

\* C19 as stated: a call that selects one region returns that region's
\* population, unemployed persons and active population as they are, and
\* regions at 0 km (100000, 5000) and 10 km (50000, 2000) give 83333 and 4000.
C19_WeightedMean ==
    catch.called /\ ~AllZero(catch.out) =>
        LET x == catch.in
            near == Selected(x)
            codes == SelectedCodes(x)
        IN  /\ Len(near) = 1 /\ Raw(x.pop, codes, near[1].id) # None
                => catch.out.total_population = Raw(x.pop, codes, near[1].id)
            /\ Len(near) = 1 /\ Raw(x.unemployed, codes, near[1].id) # None
                => catch.out.unemployed_persons
                       = 1000 * Raw(x.unemployed, codes, near[1].id)
            /\ Len(near) = 1 /\ Raw(x.active, codes, near[1].id) # None
                => catch.out.active_population = 1000 * Raw(x.active, codes, near[1].id)
            /\ (/\ near = <<[id |-> "PL911", d |-> 0], [id |-> "PL912", d |-> 10]>>
                /\ Raw(x.pop, codes, "PL911") = 100000
                /\ Raw(x.pop, codes, "PL912") = 50000
                /\ Raw(x.unemployed, codes, "PL911") = 5
                /\ Raw(x.unemployed, codes, "PL912") = 2)
                => /\ catch.out.total_population = 83333
                   /\ catch.out.unemployed_persons = 4000

\* the sum of a sequence of floats, from the left
RECURSIVE FSum(_, _)
FSum(q, k) == IF k = 0 THEN Zero ELSE fadd(FSum(q, k - 1), q[k])

\* a region's value for an indicator: known or not, and the number
NoValue == [known |-> FALSE, val |-> Zero]
Value(x) == [known |-> TRUE, val |-> x]

\* the weighted mean of the values v[k] of regions at distances d[k]: a
\* region without a value adds 0 above, and its weight below
Mean(v, d) ==
    LET above == [k \in DOMAIN v |->
                     IF v[k].known THEN fmul(v[k].val, weight(d[k])) ELSE Zero]
        below == [k \in DOMAIN v |-> weight(d[k])]
    IN  fdiv(FSum(above, Len(above)), FSum(below, Len(below)))

\* the value of an indicator as the code converts it
Persons(raw) == IF raw = None THEN NoValue ELSE Value(float(raw))
Thousands(raw) == IF raw = None THEN NoValue ELSE Value(fmul(float(raw), float(1000)))

\* C20: when no request raises, each number returned is the weighted mean
\* over all the selected regions, a region without a value for the indicator
\* adding nothing to the sum of the values and its weight to the sum of the
\* weights, and a region without active population but with a population
\* counting 65 % of its population as active.
C20_MissingValues ==
    catch.called =>
        LET x == catch.in
            near == Selected(x)
            codes == SelectedCodes(x)
            d == [k \in DOMAIN near |-> near[k].d]
            pop == [k \in DOMAIN near |-> Persons(Raw(x.pop, codes, near[k].id))]
            unemployed == [k \in DOMAIN near |->
                             Thousands(Raw(x.unemployed, codes, near[k].id))]
            active == [k \in DOMAIN near |->
                         IF Raw(x.active, codes, near[k].id) # None
                         THEN Thousands(Raw(x.active, codes, near[k].id))
                         ELSE IF pop[k].known
                         THEN Value(fmul(pop[k].val, ActiveShare))
                         ELSE NoValue]
        IN  /\ near # <<>>
            /\ \A a \in {x.pop, x.unemployed, x.active} : ~Unconvertible(a, codes)
            => /\ catch.out.total_population = int(Mean(pop, d))
               /\ catch.out.unemployed_persons = int(Mean(unemployed, d))
               /\ catch.out.active_population = int(Mean(active, d))
               /\ catch.out.nuts3_regions = [k \in DOMAIN near |-> near[k].id]

\* a call with two regions selected, the first without a number of
\* unemployed, the second without active population but with a population
C20_Witness ==
    /\ catch.called
    /\ Len(Selected(catch.in)) = 2
    /\ LET x == catch.in
           codes == SelectedCodes(x)
           one == Selected(x)[1].id
           two == Selected(x)[2].id
       IN  /\ Raw(x.unemployed, codes, one) = None
           /\ Raw(x.unemployed, codes, two) # None
           /\ Raw(x.active, codes, two) = None
           /\ Raw(x.pop, codes, two) # None
    /\ catch.out.unemployed_persons > 0
    /\ catch.out.active_population > 0
-----------------------------------------------------------------------------
(* The catchment: year, employed persons, selection (SpecCatchment) *)

\* the year whose rows an indicator's numbers come from: the year asked for,
\* the year before when the year has no row, None when neither has one
YearUsed(answers, codes, year) ==
    IF RowsFor(answers[1], codes) # {} THEN year
    ELSE IF RowsFor(answers[2], codes) # {} THEN year - 1
    ELSE None

\* the call went through to the assignments of the results
Computed == catch.called /\ catch.out.nuts3_regions # <<>>

\* C21 as stated: an indicator without data for the year is asked for again
\* for the year before, and the data_year of the result is a year whose data
\* went into it.
C21_YearActuallyUsed ==
    Computed =>
        LET x == catch.in
            codes == SelectedCodes(x)
            used == {YearUsed(a, codes, DefaultYear) :
                        a \in {x.pop, x.unemployed, x.active}} \ {None}
        IN  used # {} => catch.out.data_year \in used

Ids(regions) == [k \in DOMAIN regions |-> regions[k].id]

\* no request of the call meets a value that is no number, and the lookup for
\* the site does not raise
Clean(x, codes) ==
    /\ x.here # Raised
    /\ \A a \in {x.pop, x.unemployed, x.active} : ~Unconvertible(a, codes)

\* the regions of the result when those of the sequence "within" qualify:
\* these, or when there are none the region the site lies in, at distance 0
SelectionIs(within) ==
    LET x == catch.in
    IN  IF within # <<>>
        THEN Clean(x, {within[k].id : k \in DOMAIN within})
                 => catch.out.nuts3_regions = Ids(within)
        ELSE IF x.here \notin {"", Raised}
        THEN Clean(x, {x.here})
                 => /\ catch.out.nuts3_regions = <<x.here>>
                    /\ Raw(x.pop, {x.here}, x.here) # None
                          => catch.out.total_population = Raw(x.pop, {x.here}, x.here)
        ELSE catch.out.nuts3_regions = <<>>

\* C23 as stated: the regions of a result are the loaded regions whose
\* centroid is within the radius, and the region the site lies in, with
\* weight 1, exactly when there is none.
C23_SelectsWithinRadius ==
    catch.called /\ catch.in.ok =>
        SelectionIs(SelectSeq(catch.in.regions, LAMBDA r : r.d <= DefaultRadius))

\* C23 amended: the regions of a result are the loaded regions that carry a
\* NUTS_ID and whose centroid is within the radius, and the region the site
\* lies in, with weight 1, exactly when there is none of these.
C23_SelectsIdentifiedWithinRadius ==
    catch.called /\ catch.in.ok =>
        SelectionIs(SelectSeq(catch.in.regions,
                              LAMBDA r : r.d <= DefaultRadius /\ r.id # ""))

\* a site with two regions loaded, both farther away than the radius, that
\* lies in PL911: the result is the population of PL911
C23_Witness ==
    /\ catch.called
    /\ Len(catch.in.regions) = 2
    /\ \A k \in 1..2 : catch.in.regions[k].d > DefaultRadius
    /\ catch.in.here = "PL911"
    /\ catch.out.nuts3_regions = <<"PL911">>
    /\ catch.out.total_population = 100000

-----------------------------------------------------------------------------
(* Region lookups (SpecLookup) *)

\* C24: a lookup in a dataset that is not loaded answers {} and does not
\* raise.
C24_NotLoadedIsNone ==
    look.called /\ ~look.in.idx.ok => look.out = Returns(NoRegion)

\* a NUTS lookup in a dataset that failed to load
C24_Witness ==
    /\ look.called
    /\ ~look.in.idx.ok
    /\ look.in.kind = "nuts"
    /\ look.out = Returns(NoRegion)

\* C25 as stated: a lookup of a point that exactly one loaded geometry covers
\* answers that geometry's region.
C25_FindsContainingRegion ==
    look.called /\ look.in.idx.ok =>
        \A k \in DOMAIN look.in.idx.geoms :
            Covering(look.in.idx, look.in.pt) = {k} => look.out = Returns(k)

\* C26 as stated: a lookup of a point that more than one loaded geometry
\* covers answers the first of them in the order they were loaded, whatever
\* the order of the tree.
C26_FirstInLoadOrder ==
    look.called /\ look.in.idx.ok /\ Cardinality(Covering(look.in.idx, look.in.pt)) > 1 =>
        /\ ~look.out.raised
        /\ look.out.region \in Covering(look.in.idx, look.in.pt)
        /\ \A k \in Covering(look.in.idx, look.in.pt) : look.out.region <= k

-----------------------------------------------------------------------------
(* The progress observer (SpecObserved) *)

\* the error entries of the sites logged so far and of the site in hand
ErrorsOf(site, steps) ==
    {<<site, steps[m].step, steps[m].who>> :
        m \in {x \in DOMAIN steps : steps[x].kind = "error"}}

ErrorEntries ==
    UNION {ErrorsOf(logs[n].site, logs[n].steps) : n \in DOMAIN logs}
    \cup (IF pc \in {"idle", "site", "return", "done", "raised"} THEN {}
          ELSE ErrorsOf(i, log_rec))

\* the get_route calls that failed in a step whose handler logs the failure
FailedCalls ==
    {<<attempts[n].site, attempts[n].step, attempts[n].f>> :
        n \in {x \in DOMAIN attempts :
                 attempts[x].routed /\ ~attempts[x].ok /\ attempts[x].step # "Highway"}}

\* C27 as stated: the observer is advisory.  No run of valid frames is
\* aborted, and every error entry of a site's log is the failure of one of
\* its get_route calls, as it is in a run without an observer.
C27_ObserverIsAdvisory ==
    /\ pc = "raised" => validate(cfg) # ""
    /\ ErrorEntries \subseteq FailedCalls

\* C30 as stated: a run over valid frames that has stopped has appended one
\* record and one log per site, in the order of the sites, and has stored
\* its route cache back in the session.
C30_StoppedRunIsComplete ==
    pc \in {"done", "raised"} /\ validate(cfg) = "" =>
        /\ pc = "done"
        /\ Len(results) = Len(cfg.sites)
        /\ \A k \in DOMAIN results : results[k]["Site Name"] = k
        /\ Len(logs) = Len(cfg.sites)
        /\ \A k \in DOMAIN logs : logs[k].site = k
        /\ session.has

-----------------------------------------------------------------------------
(* The call counter (Spec) *)

\* C28: a get_route call that the cache answers adds one to api_calls, as one
\* that the provider answers does.
C28_CacheHitsCount ==
    \A n \in DOMAIN attempts :
        attempts[n].routed /\ attempts[n].ok =>
            /\ attempts[n].osrm \in {0, 1}
            /\ attempts[n].after = attempts[n].before + 1

\* a finished run that the cache answered alone: calls counted, a pause
\* taken, and no provider call
C28_Witness ==
    /\ pc = "done"
    /\ n_osrm = 0
    /\ api_calls > 0
    /\ sleeps > 0
    /\ api_calls > n_osrm
    /\ \E n \in DOMAIN attempts :
          /\ attempts[n].routed /\ attempts[n].ok /\ attempts[n].slept
          /\ attempts[n].osrm = 0
          /\ attempts[n].after = attempts[n].before + 1

\* the highway step of the site in hand has just ended with an access node
\* found and the route to it failed
HighwayRouteFailed ==
    /\ pc = after("highway")
    /\ cfg.include_highway
    /\ attempts # <<>>
    /\ attempts[Len(attempts)].site = i
    /\ attempts[Len(attempts)].step = "Highway"
    /\ attempts[Len(attempts)].routed
    /\ ~attempts[Len(attempts)].ok

\* C29: when the route to the access node fails, the distance is the
\* straight-line distance, the time stays missing, the site's log gets no
\* entry of the highway step and api_calls is incremented once.
C29_HighwayFallsBack ==
    HighwayRouteFailed =>
        /\ out_rec["Distance to Highway (km)"]
             = round1(haversine_km(slat, slon, World.highway, Lon0))
        /\ out_rec["Nearest Highway Access"] = "Highway Access"
        /\ out_rec["Time to Highway (min)"] = None
        /\ \A n \in DOMAIN log_rec : log_rec[n].step # "Highway"
        /\ attempts[Len(attempts)].after = attempts[Len(attempts)].before + 1

\* such a step after a call that was counted
C29_Witness ==
    /\ HighwayRouteFailed
    /\ attempts[Len(attempts)].before > 0
    /\ out_rec["Distance to Highway (km)"] # None
    /\ out_rec["Time to Highway (min)"] = None
    /\ api_calls = attempts[Len(attempts)].before + 1
====
